---- MODULE Spec2Model ----
(***************************************************************************)
(* Model of the website crawler of rag-website-chatbot                     *)
(* (src/src/crawler.py, src/src/utils.py).                                 *)
(*                                                                         *)
(* A URL string is modelled by the record of its parts (what urlparse      *)
(* returns for it) plus `wf`, the verdict of the validators library on     *)
(* the whole string.  Paths are sequences of one-character strings so      *)
(* that lower() and endswith() are computed, not assumed.                  *)
(***************************************************************************)
EXTENDS Integers, Sequences, FiniteSets, TLC

(***************************************************************************)
(* Bounds of the model.                                                    *)
(***************************************************************************)
MaxDepthBound == 3
MaxPagesBound == 3
MaxCrawlCalls == 2
MaxKbCalls == 3

(***************************************************************************)
(* Program constant: a page is recorded only when text_length > 100.       *)
(***************************************************************************)
MinTextLength == 100

(***************************************************************************)
(* URLs.                                                                   *)
(***************************************************************************)
Url(scheme, netloc, path, fragment, wf) ==
    [scheme |-> scheme, netloc |-> netloc, path |-> path,
     fragment |-> fragment, wf |-> wf]

BaseUrl   == Url("https", "example.com", <<>>, "", TRUE)
PageA     == Url("https", "example.com", <<"/", "a">>, "", TRUE)
PageB     == Url("https", "example.com", <<"/", "b">>, "", TRUE)
PageC     == Url("https", "example.com", <<"/", "c">>, "", TRUE)
PageD     == Url("https", "example.com", <<"/", "d">>, "", TRUE)
PageAFrag == Url("https", "example.com", <<"/", "a">>, "top", TRUE)
RelB      == Url("", "", <<"/", "b">>, "", FALSE)
ExtUrl    == Url("https", "other.org", <<"/", "a">>, "", TRUE)
PdfUrl    == Url("https", "example.com", <<"/", "f", ".", "P", "D", "F">>, "", TRUE)
FtpUrl    == Url("ftp", "example.com", <<"/", "c">>, "", TRUE)
BadUrl    == Url("https", "exa mple", <<"/", "c">>, "", FALSE)

\* every URL string the model ever hands to the crawler's predicates
AllUrls == {BaseUrl, PageA, PageB, PageC, PageD, PageAFrag, RelB, ExtUrl, PdfUrl,
            FtpUrl, BadUrl}

(***************************************************************************)
(* utils.py                                                                *)
(***************************************************************************)
\* is_valid_url: validators.url(url) and scheme in ['http', 'https']
is_valid_url(url) ==
    /\ url.wf
    /\ url.scheme \in {"http", "https"}

\* urljoin(base_url, url) for an absolute-path reference
urljoin(base, url) ==
    IF url.scheme # "" THEN url
    ELSE IF url.netloc # ""
         THEN [url EXCEPT !.scheme = base.scheme, !.wf = base.wf]
         ELSE [url EXCEPT !.scheme = base.scheme, !.netloc = base.netloc,
                          !.wf = base.wf]

\* normalize_url that keeps the fragment
NormalizeUrlKeepFragment(url, base) ==
    LET joined == urljoin(base, url)
    IN  [ok |-> is_valid_url(joined), url |-> joined]

\* normalize_url: resolve against base, drop the fragment, None when invalid
\* (None is modelled by ok = FALSE)
normalize_url(url, base) ==
    LET joined     == urljoin(base, url)
        normalized == [joined EXCEPT !.fragment = ""]
    IN  [ok |-> is_valid_url(normalized), url |-> normalized]

get_domain(url) == url.netloc

\* is_same_domain that only checks that both URLs have a domain
IsSameDomainNoCompare(url1, url2) ==
    LET domain1 == get_domain(url1)
        domain2 == get_domain(url2)
    IN  IF domain1 = "" \/ domain2 = "" THEN FALSE ELSE TRUE

is_same_domain(url1, url2) ==
    LET domain1 == get_domain(url1)
        domain2 == get_domain(url2)
    IN  IF domain1 = "" \/ domain2 = "" THEN FALSE ELSE domain1 = domain2

(***************************************************************************)
(* str.lower() and str.endswith() on paths                                 *)
(***************************************************************************)
UpperChars == <<"A", "B", "C", "D", "E", "F", "G", "H", "I", "J", "K", "L", "M",
                "N", "O", "P", "Q", "R", "S", "T", "U", "V", "W", "X", "Y", "Z">>
LowerChars == <<"a", "b", "c", "d", "e", "f", "g", "h", "i", "j", "k", "l", "m",
                "n", "o", "p", "q", "r", "s", "t", "u", "v", "w", "x", "y", "z">>

LowerChar(c) ==
    IF \E i \in DOMAIN UpperChars : UpperChars[i] = c
    THEN LowerChars[CHOOSE i \in DOMAIN UpperChars : UpperChars[i] = c]
    ELSE c

lower(s) == [i \in DOMAIN s |-> LowerChar(s[i])]

endswith(s, suffix) ==
    /\ Len(suffix) <= Len(s)
    /\ \A i \in 1..Len(suffix) : s[Len(s) - Len(suffix) + i] = suffix[i]

startswith(s, prefix) ==
    /\ Len(prefix) <= Len(s)
    /\ \A i \in 1..Len(prefix) : s[i] = prefix[i]

skip_extensions ==
    { <<".", "p", "d", "f">>, <<".", "j", "p", "g">>, <<".", "j", "p", "e", "g">>,
      <<".", "p", "n", "g">>, <<".", "g", "i", "f">>, <<".", "s", "v", "g">>,
      <<".", "i", "c", "o">>, <<".", "c", "s", "s">>, <<".", "j", "s">>,
      <<".", "j", "s", "o", "n">>, <<".", "x", "m", "l">>, <<".", "z", "i", "p">>,
      <<".", "t", "a", "r">>, <<".", "g", "z">>, <<".", "m", "p", "4">>,
      <<".", "m", "p", "3">>, <<".", "a", "v", "i">>, <<".", "m", "o", "v">>,
      <<".", "d", "o", "c">>, <<".", "d", "o", "c", "x">>, <<".", "x", "l", "s">>,
      <<".", "x", "l", "s", "x">>, <<".", "p", "p", "t">>,
      <<".", "p", "p", "t", "x">> }

(***************************************************************************)
(* The environment: the site being crawled.                                *)
(***************************************************************************)
\* the anchors (href values, in document order) of each page of a site
ScenarioSite ==
    (BaseUrl :> <<PageA, PageB, ExtUrl>>) @@ (PageA :> <<BaseUrl>>) @@
    (PageB :> <<PageA>>)

RichSite ==
    (BaseUrl :> <<PageAFrag, RelB, ExtUrl, PdfUrl, PageA, FtpUrl, BadUrl>>) @@
    (PageA :> <<PageB, PageC, BaseUrl>>) @@
    (PageB :> <<PageC, PageA>>) @@
    (PageC :> <<PageA, ExtUrl, PageD>>) @@
    (PageD :> <<BaseUrl>>)

Sites == {ScenarioSite, RichSite}

Anchors(s, url) == IF url \in DOMAIN s THEN s[url] ELSE <<>>

\* robots.txt files a site may serve: the Disallow path prefixes for "*"
RobotsFiles == { {}, {<<"/", "b">>}, {<<"/">>} }

\* URLs on which evaluating the policy may raise
RaisingUrlSets == { {}, {PageB} }

\* what one GET may produce: an exception, or a response
Response(status, html, text_length) ==
    [status |-> status, html |-> html, text_length |-> text_length]

Responses ==
    { Response("timeout", FALSE, 0),
      Response("http_error", TRUE, MinTextLength + 1),
      Response("exception", FALSE, 0), Response("ok", FALSE, MinTextLength + 1) }
    \cup { Response("ok", TRUE, n) : n \in {MinTextLength, MinTextLength + 1} }

\* what a GET of the URL may receive: one page of the site may also come
\* with a text one character longer
ResponsesOf(url) ==
    IF url = PageB THEN Responses \cup {Response("ok", TRUE, MinTextLength + 2)}
    ELSE Responses

(***************************************************************************)
(* State.                                                                  *)
(***************************************************************************)
VARIABLES
    pc,               \* position in __init__ / crawl()
    max_depth,        \* self.max_depth
    max_pages,        \* self.max_pages
    visited_urls,     \* self.visited_urls
    crawled_data,     \* self.crawled_data
    robot_parser,     \* self.robot_parser
    queue,            \* crawl(): local queue
    current,          \* crawl(): (current_url, depth)
    result,           \* crawl(): result of crawl_page
    site,             \* environment: the pages served
    robots_txt,       \* environment: the robots.txt served
    raising_urls,     \* environment: URLs on which can_fetch raises
    robots_load,      \* history: outcome of RobotFileParser.read()
    fetch_log,        \* history: every GET attempted, with its response
    enqueue_log,      \* history: every entry ever appended to the queue
    delays,           \* history: sleeps since the last GET
    crawl_calls       \* history: number of crawl() calls started

crawlerVars ==
    <<pc, max_depth, max_pages, visited_urls, crawled_data, robot_parser,
      queue, current, result, site, robots_txt, raising_urls, robots_load,
      fetch_log, enqueue_log, delays, crawl_calls>>

\* knowledge_base.py: KnowledgeBase
VARIABLES
    embedding_model_name,  \* self.embedding_model_name
    model,                 \* self.model: the identifier of the model loaded
    index,                 \* self.index
    chunks,                \* self.chunks
    chunk_metadata,        \* self.chunk_metadata
    dimension,             \* self.dimension
    disk,                  \* environment: the two artifacts of the directory
    last_call,             \* history: the last call, its arguments and outcome
    snapshot,              \* history: the model of the last successful save
    built,                 \* history: the fields are those of a successful build
    kb_calls               \* history: the number of calls made

kbVars == <<embedding_model_name, model, index, chunks, chunk_metadata,
            dimension, disk, last_call, snapshot, built, kb_calls>>

\* a call of an operation that keeps no state between calls
VARIABLES
    invocation             \* history: the call, its arguments and its outcome

callVars == <<invocation>>

vars == <<crawlerVars, kbVars, callVars>>

NoInvocation == [op |-> "none"]

base_url == BaseUrl

\* self.robot_parser = None
NoParser == [present |-> FALSE, read |-> FALSE, disallow |-> {}]
\* RobotFileParser() before read()
UnreadParser == [present |-> TRUE, read |-> FALSE, disallow |-> {}]

NoResult == [some |-> FALSE, links |-> <<>>]
NoEntry  == [url |-> base_url, depth |-> 0]

(***************************************************************************)
(* crawler.py: WebCrawler                                                  *)
(***************************************************************************)
\* RobotFileParser.can_fetch("*", url): an unread parser allows nothing;
\* an empty path is matched as "/"
can_fetch(parser, url) ==
    LET path == IF url.path = <<>> THEN <<"/">> ELSE url.path
    IN  /\ parser.read
        /\ ~ \E d \in parser.disallow : startswith(path, d)

\* _init_robots_parser: the parser after read() returned or raised
InitRobotsParserNoReset(raised) ==
    IF raised THEN UnreadParser
    ELSE [present |-> TRUE, read |-> TRUE, disallow |-> robots_txt]

init_robots_parser(raised) ==
    IF raised THEN NoParser
    ELSE [present |-> TRUE, read |-> TRUE, disallow |-> robots_txt]

is_allowed_by_robots(url) ==
    IF ~ robot_parser.present THEN TRUE
    ELSE IF url \in raising_urls THEN TRUE
         ELSE can_fetch(robot_parser, url)

has_skip_extension(url) ==
    LET path_lower == lower(url.path)
    IN  \E ext \in skip_extensions : endswith(path_lower, ext)

IsValidUrlForCrawlingNoVisited(url) ==
    /\ is_valid_url(url)
    /\ is_same_domain(url, base_url)
    /\ ~ has_skip_extension(url)
    /\ is_allowed_by_robots(url)

is_valid_url_for_crawling(url) ==
    /\ is_valid_url(url)
    /\ is_same_domain(url, base_url)
    /\ url \notin visited_urls
    /\ ~ has_skip_extension(url)
    /\ is_allowed_by_robots(url)

\* get_links with `return links` inside the for loop
GetLinksReturnInsideLoop(anchors, current_url) ==
    IF anchors = <<>> THEN <<>>
    ELSE LET n == normalize_url(anchors[1], current_url)
         IN  IF n.ok /\ is_valid_url_for_crawling(n.url) THEN <<n.url>> ELSE <<>>

\* get_links: the normalized anchors that are valid for crawling, in order
get_links(anchors, current_url) ==
    LET norm == [i \in DOMAIN anchors |-> normalize_url(anchors[i], current_url)]
        kept == SelectSeq(norm, LAMBDA n : n.ok /\ is_valid_url_for_crawling(n.url))
    IN  [i \in DOMAIN kept |-> kept[i].url]

Page(url, depth, text_length) ==
    [url |-> url, depth |-> depth, text_length |-> text_length]

\* crawl_page without response.raise_for_status()
CrawlPageNoRaiseForStatus(url, depth, resp) ==
    IF resp.status \in {"timeout", "exception"}
    THEN [data |-> crawled_data, result |-> NoResult]
    ELSE IF ~ resp.html THEN [data |-> crawled_data, result |-> NoResult]
    ELSE IF resp.text_length > MinTextLength
         THEN [data   |-> Append(crawled_data, Page(url, depth, resp.text_length)),
               result |-> [some  |-> TRUE,
                           links |-> IF depth < max_depth
                                     THEN get_links(Anchors(site, url), url)
                                     ELSE <<>>]]
         ELSE [data |-> crawled_data, result |-> NoResult]

\* crawl_page that records a text of MinTextLength characters
CrawlPageRecordsAtThreshold(url, depth, resp) ==
    IF resp.status # "ok" THEN [data |-> crawled_data, result |-> NoResult]
    ELSE IF ~ resp.html THEN [data |-> crawled_data, result |-> NoResult]
    ELSE IF resp.text_length >= MinTextLength
         THEN [data   |-> Append(crawled_data, Page(url, depth, resp.text_length)),
               result |-> [some  |-> TRUE,
                           links |-> IF depth < max_depth
                                     THEN get_links(Anchors(site, url), url)
                                     ELSE <<>>]]
         ELSE [data |-> crawled_data, result |-> NoResult]

\* crawl_page: the new crawled_data and the value returned
crawl_page(url, depth, resp) ==
    IF resp.status # "ok" THEN [data |-> crawled_data, result |-> NoResult]
    ELSE IF ~ resp.html THEN [data |-> crawled_data, result |-> NoResult]
    ELSE IF resp.text_length > MinTextLength
         THEN [data   |-> Append(crawled_data, Page(url, depth, resp.text_length)),
               result |-> [some  |-> TRUE,
                           links |-> IF depth < max_depth
                                     THEN get_links(Anchors(site, url), url)
                                     ELSE <<>>]]
         ELSE [data |-> crawled_data, result |-> NoResult]

\* crawl(): the while condition
LoopConditionOffByOne ==
    queue # <<>> /\ Len(crawled_data) <= max_pages

LoopConditionEarly ==
    queue # <<>> /\ Len(crawled_data) < max_pages - 1

LoopCondition ==
    queue # <<>> /\ Len(crawled_data) < max_pages

\* queue.pop() takes the last entry
PopLast(q) == [item |-> q[Len(q)], rest |-> SubSeq(q, 1, Len(q) - 1)]

\* queue.pop(0)
pop0(q) == [item |-> Head(q), rest |-> Tail(q)]

\* the entries appended without the test of the page budget
NewEntriesNoPageBudget(res, depth) ==
    IF res.some /\ res.links # <<>> /\ depth < max_depth
    THEN LET ok == SelectSeq(res.links, LAMBDA l : l \notin visited_urls)
         IN  [i \in DOMAIN ok |-> [url |-> ok[i], depth |-> depth + 1]]
    ELSE <<>>

\* crawl(): the entries appended for the links of the page just crawled
NewEntries(res, depth) ==
    IF res.some /\ res.links # <<>> /\ depth < max_depth
    THEN LET ok == SelectSeq(res.links, LAMBDA l :
                       l \notin visited_urls /\ Len(crawled_data) < max_pages)
         IN  [i \in DOMAIN ok |-> [url |-> ok[i], depth |-> depth + 1]]
    ELSE <<>>

(***************************************************************************)
(* knowledge_base.py: data                                                 *)
(*                                                                         *)
(* A text is a sequence of one-character strings.  An embedding is a       *)
(* sequence of integers whose Euclidean norm is an integer; a normalized   *)
(* vector has its components in units of 1/Scale, a squared distance and a *)
(* similarity score are in units of 1/Scale^2, so the arithmetic is exact. *)
(***************************************************************************)
DefaultModel == "all-MiniLM-L6-v2"
SiblingModel == "all-MiniLM-L12-v2"
OtherModel   == "all-mpnet-base-v2"
EmbeddingModels == {DefaultModel, SiblingModel, OtherModel}

Scale == 5 * 6
One == Scale * Scale
\* the distance FAISS reports for a missing neighbour (largest float)
InfDistance == One * 1000

RECURSIVE SumSeq(_)
SumSeq(s) == IF s = <<>> THEN 0 ELSE Head(s) + SumSeq(Tail(s))

Dot(u, v) == SumSeq([i \in DOMAIN u |-> u[i] * v[i]])

\* np.linalg.norm
Norm(v) == CHOOSE n \in 0..Dot(v, v) : n * n = Dot(v, v)

\* x / np.linalg.norm(x, axis=1, keepdims=True), one row
Normalize(v) == [i \in DOMAIN v |-> (v[i] * Scale) \div Norm(v)]

\* the metric of IndexFlatL2: squared Euclidean distance
L2sq(u, v) == SumSeq([i \in DOMAIN u |-> (u[i] - v[i]) * (u[i] - v[i])])

\* SentenceTransformer(m).encode([text])[0]
encode(m, text) ==
    LET c == IF text = <<>> THEN "" ELSE text[1]
    IN  IF m = DefaultModel
        THEN CASE c = "a" -> <<3, 4>>
               [] c = "b" -> <<4, 3>>
               [] c = "c" -> <<10, 0>>
               [] c = "d" -> <<0, 5>>
               [] c = "e" -> <<6, 8>>
               [] OTHER   -> <<0 - 3, 4>>
        ELSE IF m = SiblingModel
        THEN CASE c = "a" -> <<4, 3>>
               [] c = "b" -> <<3, 4>>
               [] c = "c" -> <<0, 5>>
               [] c = "d" -> <<10, 0>>
               [] c = "e" -> <<8, 6>>
               [] OTHER   -> <<5, 0>>
        ELSE CASE c = "a" -> <<1, 2, 2>>
               [] c = "b" -> <<2, 1, 2>>
               [] c = "c" -> <<0, 0, 3>>
               [] c = "d" -> <<6, 0, 0>>
               [] OTHER   -> <<2, 2, 0 - 1>>

\* _load_model: test_embedding.shape[1]
ModelDimension(m) == Len(encode(m, <<"t", "e", "s", "t">>))

\* pages handed to build_from_crawled_data
KbPage(url, title, depth, text) ==
    [url |-> url, title |-> title, depth |-> depth, text |-> text]

DocA == KbPage(PageA, "A", 1, <<"a", "b", "c", "d">>)
DocB == KbPage(PageB, "B", 1, <<"b">>)
DocE == KbPage(PageC, "Empty", 2, <<>>)

PageLists == { <<>>, <<DocE>>, <<DocA>>, <<DocA, DocE, DocB>> }

\* (chunk_size, chunk_overlap)
ChunkParams == { <<3, 1>> }

Queries == { <<"b">>, <<"x">> }

TopKs == {0, 1, 5}

\* the separators given to RecursiveCharacterTextSplitter, coarsest first
Separators == << <<"\n", "\n">>, <<"\n">>, <<".", " ">>, <<" ">>, <<>> >>

\* the characters str.strip() removes
Whitespace == {" ", "\n"}

\* str.strip()
RECURSIVE strip(_)
strip(text) ==
    IF text = <<>> THEN <<>>
    ELSE IF Head(text) \in Whitespace THEN strip(Tail(text))
    ELSE IF text[Len(text)] \in Whitespace
         THEN strip(SubSeq(text, 1, Len(text) - 1))
    ELSE text

\* "".join(docs)
RECURSIVE join(_)
join(docs) == IF docs = <<>> THEN <<>> ELSE Head(docs) \o join(Tail(docs))

\* the separator occurs in the text at position i
OccursAt(text, separator, i) ==
    /\ i + Len(separator) - 1 <= Len(text)
    /\ SubSeq(text, i, i + Len(separator) - 1) = separator

\* re.search(separator, text)
re_search(separator, text) ==
    \E i \in 1..Len(text) : OccursAt(text, separator, i)

\* the positions where re.split finds the separator, from position i on:
\* leftmost first, without overlap
RECURSIVE MatchStarts(_, _, _)
MatchStarts(text, separator, i) ==
    LET later == { j \in i..Len(text) : OccursAt(text, separator, j) }
    IN  IF later = {} THEN <<>>
        ELSE LET j == CHOOSE m \in later : \A n \in later : m <= n
             IN  <<j>> \o MatchStarts(text, separator, j + Len(separator))

\* _split_text_with_regex(text, separator, keep_separator=True): the text
\* cut before every separator, so that a separator opens the piece after it;
\* the characters of the text when the separator is ""; no empty piece
split_text_with_regex(text, separator) ==
    IF separator = <<>> THEN [i \in DOMAIN text |-> <<text[i]>>]
    ELSE LET starts == MatchStarts(text, separator, 1)
             cuts   == <<1>> \o starts \o <<Len(text) + 1>>
             pieces == [i \in 1..(Len(cuts) - 1) |->
                           SubSeq(text, cuts[i], cuts[i + 1] - 1)]
         IN  SelectSeq(pieces, LAMBDA s : s # <<>>)

\* _join_docs(docs, ""): the pieces joined and stripped, nothing when that
\* leaves no character
join_docs(docs) ==
    LET text == strip(join(docs))
    IN  IF text = <<>> THEN <<>> ELSE <<text>>

SumLen(docs) == Len(join(docs))

\* _merge_splits: the while loop that drops pieces from the front of
\* current_doc until its length is within chunk_overlap and the next piece
\* of length len fits
RECURSIVE DropFront(_, _, _, _)
DropFront(current_doc, len, chunk_size, chunk_overlap) ==
    IF \/ SumLen(current_doc) > chunk_overlap
       \/ (SumLen(current_doc) + len > chunk_size /\ SumLen(current_doc) > 0)
    THEN DropFront(Tail(current_doc), len, chunk_size, chunk_overlap)
    ELSE current_doc

\* _merge_splits(splits, ""), from the piece at the head of splits on, with
\* the pieces current_doc collected so far
RECURSIVE MergeFrom(_, _, _, _)
MergeFrom(splits, current_doc, chunk_size, chunk_overlap) ==
    IF splits = <<>> THEN join_docs(current_doc)
    ELSE LET d == Head(splits)
         IN  IF SumLen(current_doc) + Len(d) > chunk_size /\ current_doc # <<>>
             THEN join_docs(current_doc) \o
                  MergeFrom(Tail(splits),
                            Append(DropFront(current_doc, Len(d), chunk_size,
                                             chunk_overlap), d),
                            chunk_size, chunk_overlap)
             ELSE MergeFrom(Tail(splits), Append(current_doc, d),
                            chunk_size, chunk_overlap)

\* _merge_splits joining all the pieces, whatever chunk_size
MergeSplitsNoLimit(splits, chunk_size, chunk_overlap) == join_docs(splits)

merge_splits(splits, chunk_size, chunk_overlap) ==
    MergeFrom(splits, <<>>, chunk_size, chunk_overlap)

\* the first separator that is "" or occurs in the text, the last one when
\* there is none
RECURSIVE FirstSeparator(_, _, _)
FirstSeparator(text, separators, i) ==
    IF separators[i] = <<>> \/ re_search(separators[i], text) THEN i
    ELSE IF i = Len(separators) THEN i
    ELSE FirstSeparator(text, separators, i + 1)

\* RecursiveCharacterTextSplitter._split_text(text, separators) and its loop
\* over the pieces, good_splits being the short pieces not merged yet
RECURSIVE recursive_split_text(_, _, _, _)
RECURSIVE SplitLoop(_, _, _, _, _)
SplitLoop(splits, good_splits, new_separators, chunk_size, chunk_overlap) ==
    LET merged == IF good_splits # <<>>
                  THEN merge_splits(good_splits, chunk_size, chunk_overlap)
                  ELSE <<>>
    IN  IF splits = <<>> THEN merged
        ELSE LET s == Head(splits)
             IN  IF Len(s) < chunk_size
                 THEN SplitLoop(Tail(splits), Append(good_splits, s),
                                new_separators, chunk_size, chunk_overlap)
                 ELSE merged \o
                      (IF new_separators = <<>> THEN <<s>>
                       ELSE recursive_split_text(s, new_separators, chunk_size,
                                                 chunk_overlap)) \o
                      SplitLoop(Tail(splits), <<>>, new_separators,
                                chunk_size, chunk_overlap)

recursive_split_text(text, separators, chunk_size, chunk_overlap) ==
    LET i == FirstSeparator(text, separators, 1)
        new_separators == IF separators[i] = <<>> THEN <<>>
                          ELSE SubSeq(separators, i + 1, Len(separators))
    IN  SplitLoop(split_text_with_regex(text, separators[i]), <<>>,
                  new_separators, chunk_size, chunk_overlap)

\* RecursiveCharacterTextSplitter(chunk_size, chunk_overlap, length_function=len,
\* separators=Separators).split_text(text)
split_text(text, chunk_size, chunk_overlap) ==
    recursive_split_text(text, Separators, chunk_size, chunk_overlap)

\* chunk_text numbering the chunks from 1
ChunkTextOneBased(text, metadata, chunk_size, chunk_overlap) ==
    IF text = <<>> THEN <<>>
    ELSE LET parts == split_text(text, chunk_size, chunk_overlap)
         IN  [i \in DOMAIN parts |->
                 metadata @@ [text |-> parts[i], chunk_index |-> i,
                              total_chunks |-> Len(parts)]]

\* {'text': ..., 'chunk_index': ..., 'total_chunks': ..., **metadata}: the
\* keys of metadata are written last
Chunk(text, chunk_index, total_chunks, metadata) ==
    metadata @@ [text |-> text, chunk_index |-> chunk_index,
                 total_chunks |-> total_chunks]

chunk_text(text, metadata, chunk_size, chunk_overlap) ==
    IF text = <<>> THEN <<>>
    ELSE LET parts == split_text(text, chunk_size, chunk_overlap)
         IN  [i \in DOMAIN parts |->
                 Chunk(parts[i], i - 1, Len(parts), metadata)]

\* self.index = None
NoIndex == [present |-> FALSE, d |-> 0, vectors |-> <<>>]

\* faiss.IndexFlatL2(d)
IndexFlatL2(d) == [present |-> TRUE, d |-> d, vectors |-> <<>>]

\* index.ntotal
ntotal(ix) == Len(ix.vectors)

\* the fields of a KnowledgeBase
Kb(name, m, ix, cs, md, dim) ==
    [embedding_model_name |-> name, model |-> m, index |-> ix, chunks |-> cs,
     chunk_metadata |-> md, dimension |-> dim]

\* __init__ with _load_model
NewKnowledgeBase(name) ==
    Kb(name, name, NoIndex, <<>>, <<>>, ModelDimension(name))

Raise(k)  == [kb |-> k, raised |-> TRUE]
Return(k) == [kb |-> k, raised |-> FALSE]

(***************************************************************************)
(* knowledge_base.py: operations, as functions of the fields k             *)
(***************************************************************************)
\* where the environment makes a build fail
BuildFailures == {"none", "encode", "index_create", "index_add"}

\* build_vector_store without the check of line 134 (no chunks)
BuildVectorStoreNoEmptyCheck(k, cks, embeddings, fail) ==
    IF Len(cks) # Len(embeddings) THEN [kb |-> k, raised |-> TRUE]
    ELSE LET k1 == [k EXCEPT !.chunks = [i \in DOMAIN cks |-> cks[i].text],
                             !.chunk_metadata = cks]
         IN  IF fail = "index_create" THEN [kb |-> k1, raised |-> TRUE]
             ELSE LET k2 == [k1 EXCEPT !.index = IndexFlatL2(k.dimension)]
                  IN  IF \/ fail = "index_add"
                         \/ \E i \in DOMAIN embeddings :
                               Len(embeddings[i]) # k.dimension
                      THEN [kb |-> k2, raised |-> TRUE]
                      ELSE [kb |-> [k2 EXCEPT !.index.vectors =
                                       [i \in DOMAIN embeddings |->
                                           [v  |-> Normalize(embeddings[i]),
                                            of |-> cks[i].text]]],
                            raised |-> FALSE]

\* build_vector_store extending what the object holds instead of replacing it
BuildVectorStoreAppends(k, cks, embeddings, fail) ==
    IF Len(cks) # Len(embeddings) THEN Raise(k)
    ELSE IF Len(cks) = 0 THEN Raise(k)
    ELSE LET k1 == [k EXCEPT !.chunks = @ \o [i \in DOMAIN cks |-> cks[i].text],
                             !.chunk_metadata = @ \o cks]
         IN  IF fail = "index_create" THEN Raise(k1)
             ELSE LET k2 == IF k.index.present THEN k1
                            ELSE [k1 EXCEPT !.index = IndexFlatL2(k.dimension)]
                  IN  IF \/ fail = "index_add"
                         \/ \E i \in DOMAIN embeddings :
                               Len(embeddings[i]) # k2.index.d
                      THEN Raise(k2)
                      ELSE Return([k2 EXCEPT !.index.vectors = @ \o
                              [i \in DOMAIN embeddings |->
                                  [v  |-> Normalize(embeddings[i]),
                                   of |-> cks[i].text]]])

\* build_vector_store(chunks, embeddings)
build_vector_store(k, cks, embeddings, fail) ==
    IF Len(cks) # Len(embeddings) THEN Raise(k)
    ELSE IF Len(cks) = 0 THEN Raise(k)
    ELSE LET k1 == [k EXCEPT !.chunks = [i \in DOMAIN cks |-> cks[i].text],
                             !.chunk_metadata = cks]
         IN  IF fail = "index_create" THEN Raise(k1)
             ELSE LET k2 == [k1 EXCEPT !.index = IndexFlatL2(k.dimension)]
                  IN  IF \/ fail = "index_add"
                         \/ \E i \in DOMAIN embeddings :
                               Len(embeddings[i]) # k.dimension
                      THEN Raise(k2)
                      ELSE Return([k2 EXCEPT !.index.vectors =
                              [i \in DOMAIN embeddings |->
                                  [v  |-> Normalize(embeddings[i]),
                                   of |-> cks[i].text]]])

\* the chunks of every page with a non-empty text, in page order
RECURSIVE AllChunks(_, _, _)
AllChunks(pages, chunk_size, chunk_overlap) ==
    IF pages = <<>> THEN <<>>
    ELSE LET page == Head(pages)
         IN  (IF page.text # <<>>
              THEN chunk_text(page.text,
                              [url |-> page.url, title |-> page.title,
                               depth |-> page.depth],
                              chunk_size, chunk_overlap)
              ELSE <<>>)
             \o AllChunks(Tail(pages), chunk_size, chunk_overlap)

\* create_embeddings(texts)
create_embeddings(k, texts) == [i \in DOMAIN texts |-> encode(k.model, texts[i])]

\* build_from_crawled_data(crawled_pages, chunk_size, chunk_overlap)
build_from_crawled_data(k, crawled_pages, chunk_size, chunk_overlap, fail) ==
    IF crawled_pages = <<>> THEN Raise(k)
    ELSE LET all_chunks == AllChunks(crawled_pages, chunk_size, chunk_overlap)
         IN  IF all_chunks = <<>> THEN Raise(k)
             ELSE IF fail = "encode" THEN Raise(k)
             ELSE build_vector_store(k, all_chunks,
                      create_embeddings(k, [i \in DOMAIN all_chunks |->
                                                all_chunks[i].text]),
                      fail)

Min(a, b) == IF a <= b THEN a ELSE b

\* index.search(query, kk): the kk nearest vectors in ascending distance (ties
\* by position), as (distance, 0-based position); a missing neighbour is
\* (InfDistance, -1)
index_search(ix, q, kk) ==
    LET n == ntotal(ix)
        dist(i) == L2sq(ix.vectors[i].v, q)
        before(j, i) == dist(j) < dist(i) \/ (dist(j) = dist(i) /\ j < i)
        place(i) == Cardinality({j \in 1..n : before(j, i)}) + 1
    IN  [r \in 1..kk |->
            IF r <= n
            THEN LET i == CHOOSE i \in 1..n : place(i) = r
                 IN  [distance |-> dist(i), idx |-> i - 1]
            ELSE [distance |-> InfDistance, idx |-> 0 - 1]]

SearchResult(md, distance, rank) ==
    [text |-> md.text, chunk_index |-> md.chunk_index,
     total_chunks |-> md.total_chunks, url |-> md.url, title |-> md.title,
     depth |-> md.depth, similarity_score |-> One - distance, rank |-> rank]

\* the for loop of search over zip(distances[0], indices[0])
format_results(k, hits) ==
    LET numbered == [r \in DOMAIN hits |-> [hit |-> hits[r], i |-> r - 1]]
        kept == SelectSeq(numbered,
                    LAMBDA h : h.hit.idx < Len(k.chunk_metadata))
    IN  [j \in DOMAIN kept |->
            LET idx == kept[j].hit.idx
                md  == IF idx < 0
                       THEN k.chunk_metadata[Len(k.chunk_metadata) + 1 + idx]
                       ELSE k.chunk_metadata[idx + 1]
            IN  SearchResult(md, kept[j].hit.distance, kept[j].i + 1)]

\* the early return of lines 214-216; every outcome of search carries the
\* fields as the call leaves them
NoResults(k) ==
    [kb |-> k, raised |-> FALSE, encoded |-> FALSE, results |-> <<>>]

\* search without the test of lines 214-216
SearchNoAbsenceCheck(k, query, top_k, rejects_k0) ==
    LET q  == Normalize(encode(k.model, query))
        kk == Min(top_k, Len(k.chunks))
    IN  IF Len(q) # k.index.d \/ (kk <= 0 /\ rejects_k0)
        THEN [kb |-> k, raised |-> TRUE, encoded |-> TRUE, results |-> <<>>]
        ELSE [kb |-> k, raised |-> FALSE, encoded |-> TRUE,
              results |-> format_results(k, index_search(k.index, q, kk))]

\* search with the query vector added to the index before the lookup
SearchAddsQueryToIndex(k, query, top_k, rejects_k0) ==
    IF ~ k.index.present \/ k.chunks = <<>> THEN NoResults(k)
    ELSE LET q  == Normalize(encode(k.model, query))
             kk == Min(top_k, Len(k.chunks))
             k1 == IF Len(q) = k.index.d
                   THEN [k EXCEPT !.index.vectors = Append(@, [v |-> q, of |-> query])]
                   ELSE k
         IN  IF Len(q) # k.index.d \/ (kk <= 0 /\ rejects_k0)
             THEN [kb |-> k1, raised |-> TRUE, encoded |-> TRUE,
                   results |-> <<>>]
             ELSE [kb |-> k1, raised |-> FALSE, encoded |-> TRUE,
                   results |-> format_results(k, index_search(k.index, q, kk))]

\* search(query, top_k); rejects_k0: the FAISS build asserts k > 0.  No
\* statement of lines 213-239 assigns to a field of self, encode and
\* index.search only read, and {**chunk_metadata[idx], ...} is a new dict
\* of immutable values
search(k, query, top_k, rejects_k0) ==
    IF ~ k.index.present \/ k.chunks = <<>> THEN NoResults(k)
    ELSE LET q  == Normalize(encode(k.model, query))
             kk == Min(top_k, Len(k.chunks))
         IN  IF Len(q) # k.index.d \/ (kk <= 0 /\ rejects_k0)
             THEN [kb |-> k, raised |-> TRUE, encoded |-> TRUE,
                   results |-> <<>>]
             ELSE [kb |-> k, raised |-> FALSE, encoded |-> TRUE,
                   results |-> format_results(k, index_search(k.index, q, kk))]

\* the artifacts of a directory
NoFile == [kind |-> "none", index |-> NoIndex, chunks |-> <<>>,
           chunk_metadata |-> <<>>, embedding_model_name |-> "",
           dimension |-> 0]
CorruptFile == [NoFile EXCEPT !.kind = "corrupt"]
IndexFile(k) == [NoFile EXCEPT !.kind = "data", !.index = k.index]
MetadataFile(k) ==
    [NoFile EXCEPT !.kind = "data", !.chunks = k.chunks,
                   !.chunk_metadata = k.chunk_metadata,
                   !.embedding_model_name = k.embedding_model_name,
                   !.dimension = k.dimension]

EmptyDirectory == [index_file |-> NoFile, metadata_file |-> NoFile]

\* where the environment makes save fail
SaveFailures == {"none", "makedirs", "write_index", "write_index_partial",
                 "open_metadata", "dump"}

\* save(directory): the directory afterwards
save(k, d, fail) ==
    IF fail = "makedirs" THEN [disk |-> d, raised |-> TRUE]
    ELSE IF ~ k.index.present \/ fail = "write_index"
         THEN [disk |-> d, raised |-> TRUE]
    ELSE IF fail = "write_index_partial"
         THEN [disk |-> [d EXCEPT !.index_file = CorruptFile], raised |-> TRUE]
    ELSE LET d1 == [d EXCEPT !.index_file = IndexFile(k)]
         IN  IF fail = "open_metadata" THEN [disk |-> d1, raised |-> TRUE]
             ELSE IF fail = "dump"
                  THEN [disk |-> [d1 EXCEPT !.metadata_file = CorruptFile],
                        raised |-> TRUE]
             ELSE [disk |-> [d1 EXCEPT !.metadata_file = MetadataFile(k)],
                   raised |-> FALSE]

\* _load_model
load_model(k) ==
    [k EXCEPT !.model = k.embedding_model_name,
              !.dimension = ModelDimension(k.embedding_model_name)]

\* where the environment makes load fail
LoadFailures == {"none", "read_index", "read_metadata", "load_model"}

\* load(directory)
load(k, d, fail) ==
    IF d.index_file.kind # "data" \/ fail = "read_index"
    THEN [kb |-> k, raised |-> TRUE, reloaded |-> FALSE]
    ELSE LET k1 == [k EXCEPT !.index = d.index_file.index]
             data == d.metadata_file
         IN  IF data.kind # "data" \/ fail = "read_metadata"
             THEN [kb |-> k1, raised |-> TRUE, reloaded |-> FALSE]
             ELSE LET k2 == [k1 EXCEPT !.chunks = data.chunks,
                                       !.chunk_metadata = data.chunk_metadata,
                                       !.dimension = data.dimension]
                  IN  IF data.embedding_model_name # k.embedding_model_name
                      THEN LET k3 == [k2 EXCEPT !.embedding_model_name =
                                                 data.embedding_model_name]
                           IN  IF fail = "load_model"
                               THEN [kb |-> k3, raised |-> TRUE,
                                     reloaded |-> FALSE]
                               ELSE [kb |-> load_model(k3), raised |-> FALSE,
                                     reloaded |-> TRUE]
                      ELSE [kb |-> k2, raised |-> FALSE, reloaded |-> FALSE]

\* get_stats without the early return of lines 303-308
GetStatsAlwaysFull(k) ==
    [total_chunks |-> Len(k.chunks),
     total_vectors |-> IF k.index.present THEN ntotal(k.index) ELSE 0,
     embedding_dimension |-> k.dimension,
     unique_sources |->
         Cardinality({k.chunk_metadata[i].url : i \in DOMAIN k.chunk_metadata}),
     model_name |-> k.embedding_model_name]

\* get_stats()
get_stats(k) ==
    IF k.chunks = <<>>
    THEN [total_chunks |-> 0, total_vectors |-> 0,
          embedding_dimension |-> k.dimension]
    ELSE [total_chunks |-> Len(k.chunks),
          total_vectors |-> IF k.index.present THEN ntotal(k.index) ELSE 0,
          embedding_dimension |-> k.dimension,
          unique_sources |->
              Cardinality({k.chunk_metadata[i].url : i \in DOMAIN k.chunk_metadata}),
          model_name |-> k.embedding_model_name]

(***************************************************************************)
(* knowledge_base.py: state                                                *)
(***************************************************************************)
\* the fields of the knowledge base, as one record
kb == Kb(embedding_model_name, model, index, chunks, chunk_metadata, dimension)

SetKb(k) ==
    /\ embedding_model_name' = k.embedding_model_name
    /\ model' = k.model
    /\ index' = k.index
    /\ chunks' = k.chunks
    /\ chunk_metadata' = k.chunk_metadata
    /\ dimension' = k.dimension

\* the record of a call: its name, its arguments and its outcome
Call(op) ==
    [op |-> op, raised |-> FALSE, pages |-> <<>>, cks |-> <<>>,
     embeddings |-> <<>>, query |-> <<>>, top_k |-> 0, results |-> <<>>,
     encoded |-> FALSE, reloaded |-> FALSE,
     stats |-> [total_chunks |-> 0, total_vectors |-> 0,
                embedding_dimension |-> 0]]

NoSnapshot == [valid |-> FALSE, model |-> "", built |-> FALSE]

\* the knowledge base an earlier run built and saved
EarlierKb ==
    build_from_crawled_data(NewKnowledgeBase(DefaultModel),
                            <<DocA, DocE, DocB>>, 3, 1, "none").kb

EarlierSave == save(EarlierKb, EmptyDirectory, "none").disk

\* KnowledgeBase(name), just constructed
KbFresh(name) ==
    /\ embedding_model_name = name
    /\ model = name
    /\ index = NoIndex
    /\ chunks = <<>>
    /\ chunk_metadata = <<>>
    /\ dimension = ModelDimension(name)
    /\ last_call = Call("init")
    /\ built = FALSE
    /\ kb_calls = 0

\* no knowledge base is in use beside the crawler
KbIdle ==
    /\ KbFresh(DefaultModel)
    /\ disk = EmptyDirectory
    /\ snapshot = NoSnapshot

\* WebCrawler.get_stats with the average rounded up
GetStatsAverageRoundedUp(data, visited) ==
    LET total == SumSeq([i \in DOMAIN data |-> data[i].text_length])
    IN  [pages_crawled       |-> Len(data),
         urls_visited        |-> Cardinality(visited),
         total_text_length   |-> total,
         average_text_length |-> IF data # <<>>
                                 THEN (total + Len(data) - 1) \div Len(data)
                                 ELSE 0]

\* WebCrawler.get_stats() on the fields crawled_data and visited_urls
WebCrawler_get_stats(data, visited) ==
    LET total_text_length == SumSeq([i \in DOMAIN data |-> data[i].text_length])
    IN  [pages_crawled       |-> Len(data),
         urls_visited        |-> Cardinality(visited),
         total_text_length   |-> total_text_length,
         average_text_length |-> IF data # <<>>
                                 THEN total_text_length \div Len(data)
                                 ELSE 0]

(***************************************************************************)
(* Initial state: a crawler about to be constructed for some site.         *)
(***************************************************************************)
Init ==
    /\ pc = "new"
    /\ max_depth \in 0..MaxDepthBound
    /\ max_pages \in (0..MaxPagesBound) \cup {10}
    /\ site \in Sites
    /\ robots_txt \in RobotsFiles
    /\ raising_urls \in RaisingUrlSets
    /\ visited_urls = {}
    /\ crawled_data = <<>>
    /\ robot_parser = NoParser
    /\ queue = <<>>
    /\ current = NoEntry
    /\ result = NoResult
    /\ robots_load = "none"
    /\ fetch_log = <<>>
    /\ enqueue_log = <<>>
    /\ delays = 0
    /\ crawl_calls = 0
    /\ KbIdle
    /\ invocation = NoInvocation

(***************************************************************************)
(* Actions.                                                                *)
(***************************************************************************)
\* __init__ with _init_robots_parser
Construct ==
    /\ pc = "new"
    /\ \E raised \in BOOLEAN :
         /\ robot_parser' = init_robots_parser(raised)
         /\ robots_load' = IF raised THEN "raised" ELSE "ok"
    /\ pc' = "ready"
    /\ UNCHANGED <<max_depth, max_pages, visited_urls, crawled_data, queue,
                   current, result, site, robots_txt, raising_urls, fetch_log,
                   enqueue_log, delays, crawl_calls>>
    /\ UNCHANGED <<kbVars, callVars>>

\* crawl() that starts from an empty visited set
CrawlBeginClearsVisited ==
    /\ pc \in {"ready", "done"}
    /\ crawl_calls < MaxCrawlCalls
    /\ queue' = << [url |-> base_url, depth |-> 0] >>
    /\ enqueue_log' = Append(enqueue_log, [url |-> base_url, depth |-> 0,
                                           visited |-> FALSE])
    /\ visited_urls' = {}
    /\ crawl_calls' = crawl_calls + 1
    /\ pc' = "loop"
    /\ UNCHANGED <<max_depth, max_pages, crawled_data,
                   robot_parser, current, result, site, robots_txt,
                   raising_urls, robots_load, fetch_log, delays>>
    /\ UNCHANGED <<kbVars, callVars>>

\* crawl(): queue = [(self.base_url, 0)]
CrawlBegin ==
    /\ pc \in {"ready", "done"}
    /\ crawl_calls < MaxCrawlCalls
    /\ queue' = << [url |-> base_url, depth |-> 0] >>
    /\ enqueue_log' = Append(enqueue_log, [url |-> base_url, depth |-> 0,
                                           visited |-> base_url \in visited_urls])
    /\ crawl_calls' = crawl_calls + 1
    /\ pc' = "loop"
    /\ UNCHANGED <<max_depth, max_pages, visited_urls, crawled_data,
                   robot_parser, current, result, site, robots_txt,
                   raising_urls, robots_load, fetch_log, delays>>
    /\ UNCHANGED <<kbVars, callVars>>

\* the while condition is false: return self.crawled_data
CrawlReturn ==
    /\ pc = "loop"
    /\ ~ LoopCondition
    /\ pc' = "done"
    /\ UNCHANGED <<max_depth, max_pages, visited_urls, crawled_data,
                   robot_parser, queue, current, result, site, robots_txt,
                   raising_urls, robots_load, fetch_log, enqueue_log, delays,
                   crawl_calls>>
    /\ UNCHANGED <<kbVars, callVars>>

\* a visited URL popped from the queue and fetched all the same
SkipVisitedFetches ==
    /\ pc = "loop"
    /\ LoopCondition
    /\ pop0(queue).item.url \in visited_urls
    /\ queue' = pop0(queue).rest
    /\ current' = pop0(queue).item
    /\ pc' = "fetch"
    /\ UNCHANGED <<max_depth, max_pages, visited_urls, crawled_data,
                   robot_parser, result, site, robots_txt, raising_urls,
                   robots_load, fetch_log, enqueue_log, delays, crawl_calls>>
    /\ UNCHANGED <<kbVars, callVars>>

\* a visited URL popped from the queue, with the sleep of line 292 still taken
SkipVisitedSleeps ==
    /\ pc = "loop"
    /\ LoopCondition
    /\ pop0(queue).item.url \in visited_urls
    /\ queue' = pop0(queue).rest
    /\ current' = pop0(queue).item
    /\ delays' = delays + 1
    /\ UNCHANGED <<pc, max_depth, max_pages, visited_urls, crawled_data,
                   robot_parser, result, site, robots_txt, raising_urls,
                   robots_load, fetch_log, enqueue_log, crawl_calls>>
    /\ UNCHANGED <<kbVars, callVars>>

\* queue.pop(0) of a visited URL: continue
SkipVisited ==
    /\ pc = "loop"
    /\ LoopCondition
    /\ pop0(queue).item.url \in visited_urls
    /\ queue' = pop0(queue).rest
    /\ current' = pop0(queue).item
    /\ UNCHANGED <<pc, max_depth, max_pages, visited_urls, crawled_data,
                   robot_parser, result, site, robots_txt, raising_urls,
                   robots_load, fetch_log, enqueue_log, delays, crawl_calls>>
    /\ UNCHANGED <<kbVars, callVars>>

\* queue.pop(0) of an unvisited URL without self.visited_urls.add
DequeueNoMark ==
    /\ pc = "loop"
    /\ LoopCondition
    /\ pop0(queue).item.url \notin visited_urls
    /\ queue' = pop0(queue).rest
    /\ current' = pop0(queue).item
    /\ pc' = "fetch"
    /\ UNCHANGED <<max_depth, max_pages, visited_urls, crawled_data,
                   robot_parser, result, site, robots_txt, raising_urls,
                   robots_load, fetch_log, enqueue_log, delays, crawl_calls>>
    /\ UNCHANGED <<kbVars, callVars>>

\* queue.pop(0) of an unvisited URL: mark it visited
Dequeue ==
    /\ pc = "loop"
    /\ LoopCondition
    /\ pop0(queue).item.url \notin visited_urls
    /\ queue' = pop0(queue).rest
    /\ current' = pop0(queue).item
    /\ visited_urls' = visited_urls \cup {pop0(queue).item.url}
    /\ pc' = "fetch"
    /\ UNCHANGED <<max_depth, max_pages, crawled_data, robot_parser, result,
                   site, robots_txt, raising_urls, robots_load, fetch_log,
                   enqueue_log, delays, crawl_calls>>
    /\ UNCHANGED <<kbVars, callVars>>

\* result = self.crawl_page(current_url, depth)
CrawlPage ==
    /\ pc = "fetch"
    /\ \E resp \in ResponsesOf(current.url) :
         LET r == crawl_page(current.url, current.depth, resp)
         IN  /\ crawled_data' = r.data
             /\ result' = r.result
             /\ fetch_log' = Append(fetch_log,
                    [url |-> current.url, depth |-> current.depth,
                     resp |-> resp, delays |-> delays,
                     allowed |-> is_allowed_by_robots(current.url)])
    /\ delays' = 0
    /\ pc' = "enqueue"
    /\ UNCHANGED <<max_depth, max_pages, visited_urls, robot_parser, queue,
                   current, site, robots_txt, raising_urls, robots_load,
                   enqueue_log, crawl_calls>>
    /\ UNCHANGED <<kbVars, callVars>>

\* the for loop over result['links']
Enqueue ==
    /\ pc = "enqueue"
    /\ LET new == NewEntries(result, current.depth)
       IN  /\ queue' = queue \o new
           /\ enqueue_log' = enqueue_log \o
                  [i \in DOMAIN new |->
                      [url |-> new[i].url, depth |-> new[i].depth,
                       visited |-> new[i].url \in visited_urls]]
    /\ pc' = "sleep"
    /\ UNCHANGED <<max_depth, max_pages, visited_urls, crawled_data,
                   robot_parser, current, result, site, robots_txt,
                   raising_urls, robots_load, fetch_log, delays, crawl_calls>>
    /\ UNCHANGED <<kbVars, callVars>>

\* the sleep skipped when crawl_page returned None
SleepOnlyAfterSuccess ==
    /\ pc = "sleep"
    /\ delays' = IF result.some THEN delays + 1 ELSE delays
    /\ pc' = "loop"
    /\ UNCHANGED <<max_depth, max_pages, visited_urls, crawled_data,
                   robot_parser, queue, current, result, site, robots_txt,
                   raising_urls, robots_load, fetch_log, enqueue_log,
                   crawl_calls>>
    /\ UNCHANGED <<kbVars, callVars>>

\* time.sleep(1.0)
Sleep ==
    /\ pc = "sleep"
    /\ delays' = delays + 1
    /\ pc' = "loop"
    /\ UNCHANGED <<max_depth, max_pages, visited_urls, crawled_data,
                   robot_parser, queue, current, result, site, robots_txt,
                   raising_urls, robots_load, fetch_log, enqueue_log,
                   crawl_calls>>
    /\ UNCHANGED <<kbVars, callVars>>

Next ==
    \/ Construct
    \/ CrawlBegin
    \/ CrawlReturn
    \/ SkipVisited
    \/ Dequeue
    \/ CrawlPage
    \/ Enqueue
    \/ Sleep

Spec == Init /\ [][Next]_vars

\* crawl() runs on the calling thread: each step of a started call (and the
\* construction) is taken; a further crawl() call is the caller's choice
Running == Construct \/ CrawlReturn \/ SkipVisited \/ Dequeue \/ CrawlPage
           \/ Enqueue \/ Sleep

FairSpec == Spec /\ WF_vars(Running)

(***************************************************************************)
(* The knowledge base: its calls, each with the failures the environment   *)
(* may cause in it.                                                        *)
(***************************************************************************)
\* arguments of direct build_vector_store calls
ChunkLists == { <<>>, AllChunks(<<DocA>>, 3, 1) }

EmbeddingLists ==
    { <<>>, << <<3, 4>>, <<10, 0>> >>, << <<1, 2, 2>>, <<0, 0, 3>> >> }

\* a call that may write to the fields or to the directory
KbCall == /\ kb_calls < MaxKbCalls
          /\ kb_calls' = kb_calls + 1
          /\ UNCHANGED <<crawlerVars, callVars>>

\* a call that only reads
KbRead == UNCHANGED <<embedding_model_name, model, index, chunks,
                      chunk_metadata, dimension, disk, snapshot, built,
                      kb_calls, crawlerVars, callVars>>

\* KnowledgeBase(embedding_model): another knowledge base object
KbNew ==
    /\ KbCall
    /\ \E name \in EmbeddingModels : SetKb(NewKnowledgeBase(name))
    /\ last_call' = Call("init")
    /\ built' = FALSE
    /\ UNCHANGED <<disk, snapshot>>

KbBuildFromCrawledData ==
    /\ KbCall
    /\ \E pages \in PageLists, params \in ChunkParams, fail \in BuildFailures :
         \E r \in {build_from_crawled_data(kb, pages, params[1], params[2], fail)} :
             /\ SetKb(r.kb)
             /\ last_call' = [Call("build_from_crawled_data") EXCEPT
                                 !.raised = r.raised, !.pages = pages,
                                 !.cks = AllChunks(pages, params[1], params[2])]
             /\ built' = IF r.raised THEN built /\ r.kb = kb ELSE TRUE
    /\ UNCHANGED <<disk, snapshot>>

KbBuildVectorStore ==
    /\ KbCall
    /\ \E cks \in ChunkLists, embeddings \in EmbeddingLists :
         \E r \in {build_vector_store(kb, cks, embeddings, "none")} :
             /\ SetKb(r.kb)
             /\ last_call' = [Call("build_vector_store") EXCEPT
                                 !.raised = r.raised, !.cks = cks,
                                 !.embeddings = embeddings]
             /\ built' = IF r.raised THEN built /\ r.kb = kb ELSE TRUE
    /\ UNCHANGED <<disk, snapshot>>

KbSearch ==
    /\ \E query \in Queries, top_k \in TopKs, rejects_k0 \in BOOLEAN :
         \E r \in {search(kb, query, top_k, rejects_k0)} :
             /\ SetKb(r.kb)
             /\ last_call' = [Call("search") EXCEPT
                                 !.raised = r.raised, !.query = query,
                                 !.top_k = top_k, !.results = r.results,
                                 !.encoded = r.encoded]
    /\ UNCHANGED <<disk, snapshot, built, kb_calls, crawlerVars, callVars>>

KbSave ==
    /\ KbCall
    /\ \E fail \in SaveFailures :
         \E r \in {save(kb, disk, fail)} :
             /\ disk' = r.disk
             /\ last_call' = [Call("save") EXCEPT !.raised = r.raised]
             /\ snapshot' = IF ~ r.raised
                            THEN [valid |-> TRUE, model |-> model,
                                  built |-> built]
                            ELSE IF r.disk # disk THEN NoSnapshot
                            ELSE snapshot
    /\ UNCHANGED <<embedding_model_name, model, index, chunks, chunk_metadata,
                   dimension, built>>

KbLoad ==
    /\ KbCall
    /\ \E fail \in LoadFailures :
         \E r \in {load(kb, disk, fail)} :
             /\ SetKb(r.kb)
             /\ last_call' = [Call("load") EXCEPT
                                 !.raised = r.raised, !.reloaded = r.reloaded]
             /\ built' = (built /\ r.kb = kb)
    /\ UNCHANGED <<disk, snapshot>>

KbGetStats ==
    /\ last_call' = [Call("get_stats") EXCEPT !.stats = get_stats(kb)]
    /\ KbRead

\* no crawler is running beside the knowledge base
CrawlerIdle ==
    /\ pc = "new"
    /\ max_depth = 0
    /\ max_pages = 0
    /\ site = ScenarioSite
    /\ robots_txt = {}
    /\ raising_urls = {}
    /\ visited_urls = {}
    /\ crawled_data = <<>>
    /\ robot_parser = NoParser
    /\ queue = <<>>
    /\ current = NoEntry
    /\ result = NoResult
    /\ robots_load = "none"
    /\ fetch_log = <<>>
    /\ enqueue_log = <<>>
    /\ delays = 0
    /\ crawl_calls = 0

\* a knowledge base just constructed, beside a directory that is empty or
\* holds the save of an earlier run
KBInit ==
    /\ CrawlerIdle
    /\ invocation = NoInvocation
    /\ \E name \in EmbeddingModels : KbFresh(name)
    /\ \/ /\ disk = EmptyDirectory
          /\ snapshot = NoSnapshot
       \/ /\ disk = EarlierSave
          /\ snapshot = [valid |-> TRUE, model |-> EarlierKb.model,
                         built |-> TRUE]

KBNext ==
    \/ KbNew
    \/ KbBuildFromCrawledData
    \/ KbBuildVectorStore
    \/ KbSearch
    \/ KbSave
    \/ KbLoad
    \/ KbGetStats

KBSpec == KBInit /\ [][KBNext]_vars

(***************************************************************************)
(* knowledge_base.py: chunk_text called on its own, twice on the same      *)
(* arguments.                                                              *)
(***************************************************************************)
MaxTextLen == 4

MaxChunkSize == 3

Alphabet == {"a", " ", ".", "\n"}

RECURSIVE TextsOfLen(_)
TextsOfLen(n) ==
    IF n = 0 THEN { <<>> }
    ELSE { Append(t, c) : t \in TextsOfLen(n - 1), c \in Alphabet }

RECURSIVE Repeat(_, _)
Repeat(text, n) == IF n = 0 THEN <<>> ELSE text \o Repeat(text, n - 1)

\* test_chunk_text: "This is a sentence. " * 100, chunk_size=500, chunk_overlap=50
TestSentence ==
    <<"T", "h", "i", "s", " ", "i", "s", " ", "a", " ", "s", "e", "n", "t",
      "e", "n", "c", "e", ".", " ">>

TestRepeat == 100

TestChunkSize == 500

TestChunkOverlap == 50

TestText == Repeat(TestSentence, TestRepeat)

TestMetadata == [url |-> BaseUrl, title |-> "Test"]

ChunkTexts == UNION { TextsOfLen(n) : n \in 0..MaxTextLen }

\* chunk_size and chunk_overlap with 0 <= chunk_overlap < chunk_size
ChunkArgs ==
    { p \in (1..MaxChunkSize) \X (0..(MaxChunkSize - 1)) : p[2] < p[1] }

Metadatas == { [url |-> PageA, title |-> "A", depth |-> 1], TestMetadata }

ChunkTextCall(text, metadata, chunk_size, chunk_overlap) ==
    [op |-> "chunk_text", calls |-> 0, text |-> text, metadata |-> metadata,
     chunk_size |-> chunk_size, chunk_overlap |-> chunk_overlap,
     out |-> <<>>, again |-> <<>>]

ChunkInit ==
    /\ CrawlerIdle
    /\ KbIdle
    /\ \/ \E text \in ChunkTexts, metadata \in Metadatas, p \in ChunkArgs :
             invocation = ChunkTextCall(text, metadata, p[1], p[2])
       \/ invocation = ChunkTextCall(TestText, TestMetadata, TestChunkSize,
                                     TestChunkOverlap)

\* chunk_text(text, metadata, chunk_size, chunk_overlap)
ChunkText ==
    /\ invocation.calls = 0
    /\ invocation' =
           [invocation EXCEPT
               !.calls = 1,
               !.out = chunk_text(invocation.text, invocation.metadata,
                                  invocation.chunk_size,
                                  invocation.chunk_overlap)]
    /\ UNCHANGED <<crawlerVars, kbVars>>

\* the same call once more
ChunkTextAgain ==
    /\ invocation.calls = 1
    /\ invocation' =
           [invocation EXCEPT
               !.calls = 2,
               !.again = chunk_text(invocation.text, invocation.metadata,
                                    invocation.chunk_size,
                                    invocation.chunk_overlap)]
    /\ UNCHANGED <<crawlerVars, kbVars>>

ChunkNext == ChunkText \/ ChunkTextAgain

ChunkSpec == ChunkInit /\ [][ChunkNext]_vars

(***************************************************************************)
(* rag_pipeline.py: RAGPipeline.__init__ and generate_answer.  The record  *)
(* invocation holds the pipeline's two clients and the call in progress.   *)
(***************************************************************************)
MaxAnswerCalls == 2

\* api keys: "" stands for an empty string or None
ApiKeys == {"", "key"}

Prompts == {"p1", "p2"}

GroqAnswer == "answer of groq"

GeminiAnswer == "answer of gemini"

BothFailed == "Both Groq and Gemini APIs failed"

NoneAvailable == "No LLM API available. Please provide valid API keys."

NoOutcome == [kind |-> "none", value |-> ""]

\* RAGPipeline(knowledge_base, groq_api_key, google_api_key), before __init__
RAGPipeline(groq_api_key, google_api_key) ==
    [op |-> "generate_answer", pc |-> "new",
     groq_api_key |-> groq_api_key, google_api_key |-> google_api_key,
     groq_client |-> FALSE, gemini_model |-> FALSE,
     prompt |-> "", provider_calls |-> <<>>, outcome |-> NoOutcome,
     calls |-> 0]

AnswerInit ==
    /\ CrawlerIdle
    /\ KbIdle
    /\ \E groq_api_key \in ApiKeys, google_api_key \in ApiKeys :
          invocation = RAGPipeline(groq_api_key, google_api_key)

\* __init__: a client is set when its key is given and its construction does
\* not raise
RagConstruct ==
    /\ invocation.pc = "new"
    /\ \E groq_raised \in BOOLEAN, gemini_raised \in BOOLEAN :
          invocation' =
              [invocation EXCEPT
                  !.groq_client = invocation.groq_api_key # "" /\ ~ groq_raised,
                  !.gemini_model =
                      invocation.google_api_key # "" /\ ~ gemini_raised,
                  !.pc = "ready"]
    /\ UNCHANGED <<crawlerVars, kbVars>>

\* generate_answer(prompt) is called
GenerateAnswer ==
    /\ invocation.pc = "ready"
    /\ invocation.calls < MaxAnswerCalls
    /\ \E prompt \in Prompts :
          invocation' = [invocation EXCEPT !.prompt = prompt,
                                           !.provider_calls = <<>>,
                                           !.outcome = NoOutcome,
                                           !.calls = @ + 1,
                                           !.pc = "groq"]
    /\ UNCHANGED <<crawlerVars, kbVars>>

\* generate_answer that raises when Groq fails
GenerateAnswerGroqNoFallback ==
    /\ invocation.pc = "groq"
    /\ IF invocation.groq_client
       THEN \E ok \in BOOLEAN :
               invocation' =
                   [invocation EXCEPT
                       !.provider_calls =
                           Append(@, [provider |-> "groq", ok |-> ok,
                                      prompt |-> invocation.prompt]),
                       !.outcome = IF ok
                                   THEN [kind |-> "returned",
                                         value |-> GroqAnswer]
                                   ELSE [kind |-> "raised",
                                         value |-> BothFailed],
                       !.pc = "ready"]
       ELSE invocation' = [invocation EXCEPT !.pc = "gemini"]
    /\ UNCHANGED <<crawlerVars, kbVars>>

\* if self.groq_client: try: return self.generate_answer_groq(prompt)
GenerateAnswerGroq ==
    /\ invocation.pc = "groq"
    /\ IF invocation.groq_client
       THEN \E ok \in BOOLEAN :
               invocation' =
                   [invocation EXCEPT
                       !.provider_calls =
                           Append(@, [provider |-> "groq", ok |-> ok,
                                      prompt |-> invocation.prompt]),
                       !.outcome = IF ok
                                   THEN [kind |-> "returned",
                                         value |-> GroqAnswer]
                                   ELSE @,
                       !.pc = IF ok THEN "ready" ELSE "gemini"]
       ELSE invocation' = [invocation EXCEPT !.pc = "gemini"]
    /\ UNCHANGED <<crawlerVars, kbVars>>

\* if self.gemini_model: try: return self.generate_answer_gemini(prompt),
\* and the two raise statements
GenerateAnswerGemini ==
    /\ invocation.pc = "gemini"
    /\ IF invocation.gemini_model
       THEN \E ok \in BOOLEAN :
               invocation' =
                   [invocation EXCEPT
                       !.provider_calls =
                           Append(@, [provider |-> "gemini", ok |-> ok,
                                      prompt |-> invocation.prompt]),
                       !.outcome = IF ok
                                   THEN [kind |-> "returned",
                                         value |-> GeminiAnswer]
                                   ELSE [kind |-> "raised",
                                         value |-> BothFailed],
                       !.pc = "ready"]
       ELSE invocation' =
                [invocation EXCEPT
                    !.outcome = [kind |-> "raised", value |-> NoneAvailable],
                    !.pc = "ready"]
    /\ UNCHANGED <<crawlerVars, kbVars>>

AnswerNext ==
    \/ RagConstruct
    \/ GenerateAnswer
    \/ GenerateAnswerGroq
    \/ GenerateAnswerGemini

AnswerSpec == AnswerInit /\ [][AnswerNext]_vars

(***************************************************************************)
(* crawler.py: extract_content, on the tree BeautifulSoup(html, 'lxml')    *)
(* builds.  A node is an element with children or a string.                *)
(***************************************************************************)
MinParagraphLength == 20

Text(text) == [tag |-> "#text", text |-> text, children |-> <<>>]

Elem(tag, children) == [tag |-> tag, text |-> <<>>, children |-> children]

\* the tags extract_content removes with their content
RemovedTags ==
    {"script", "style", "nav", "header", "footer", "aside", "iframe",
     "noscript", "svg"}

HeadingTags == <<"h1", "h2", "h3", "h4", "h5", "h6">>

ParagraphTags == {"p", "article", "section", "div"}

\* the concatenation of a sequence of sequences
RECURSIVE Concat(_)
Concat(seqs) == IF seqs = <<>> THEN <<>> ELSE Head(seqs) \o Concat(Tail(seqs))

\* separator.join(parts)
RECURSIVE str_join(_, _)
str_join(separator, parts) ==
    IF parts = <<>> THEN <<>>
    ELSE IF Len(parts) = 1 THEN parts[1]
    ELSE parts[1] \o separator \o str_join(separator, Tail(parts))

\* tag.decompose() on the children only: what is nested deeper stays
DecomposeChildrenOnly(node) ==
    [node EXCEPT !.children =
        SelectSeq(node.children, LAMBDA c : c.tag \notin RemovedTags)]

\* for tag in soup([...]): tag.decompose(): the tree without the elements
\* of a removed tag, at any depth
RECURSIVE decompose(_)
decompose(node) ==
    LET kept == SelectSeq(node.children, LAMBDA c : c.tag \notin RemovedTags)
    IN  [node EXCEPT !.children = [i \in DOMAIN kept |-> decompose(kept[i])]]

\* Tag.get_text(): the strings below the node, in document order
RECURSIVE get_text(_)
get_text(node) ==
    IF node.tag = "#text" THEN node.text
    ELSE Concat([i \in DOMAIN node.children |-> get_text(node.children[i])])

\* Tag.find_all(tags): the elements below the node with one of the tags, in
\* document order
RECURSIVE find_all(_, _)
find_all(node, tags) ==
    Concat([i \in DOMAIN node.children |->
               (IF node.children[i].tag \in tags THEN <<node.children[i]>>
                ELSE <<>>)
               \o find_all(node.children[i], tags)])

\* Tag.string: the only string of the node, None (ok = FALSE) otherwise
RECURSIVE string(_)
string(node) ==
    IF Len(node.children) # 1 THEN [ok |-> FALSE, text |-> <<>>]
    ELSE IF node.children[1].tag = "#text"
         THEN [ok |-> TRUE, text |-> node.children[1].text]
    ELSE string(node.children[1])

\* html.unescape on one character or entity
unescape(c) ==
    IF c = "&amp;" THEN "&" ELSE IF c = "&lt;" THEN "<" ELSE c

\* re.sub(r'\s+', ' ', text)
RECURSIVE collapse_whitespace(_)
collapse_whitespace(text) ==
    IF text = <<>> THEN <<>>
    ELSE IF Head(text) \in Whitespace
         THEN IF Len(text) > 1 /\ text[2] \in Whitespace
              THEN collapse_whitespace(Tail(text))
              ELSE <<" ">> \o collapse_whitespace(Tail(text))
    ELSE <<Head(text)>> \o collapse_whitespace(Tail(text))

\* utils.clean_text, for texts without control characters
clean_text(text) ==
    IF text = <<>> THEN <<>>
    ELSE strip(collapse_whitespace([i \in DOMAIN text |-> unescape(text[i])]))

TitlePrefix == <<"T", "i", "t", "l", "e", ":", " ">>

HeadingsPrefix == <<"H", "e", "a", "d", "i", "n", "g", "s", ":", " ">>

HeadingsSeparator == <<" ", "|", " ">>

PartsSeparator == <<"\n", "\n">>

\* extract_content(html, url), soup being the parsed html
extract_content(soup, url) ==
    LET content == decompose(soup)
        titles  == find_all(content, {"title"})
        title   == IF titles # <<>>
                   THEN clean_text(IF string(titles[1]).ok
                                   THEN string(titles[1]).text ELSE <<>>)
                   ELSE <<>>
        found_headings ==
            Concat([i \in DOMAIN HeadingTags |->
                       find_all(content, {HeadingTags[i]})])
        headings ==
            SelectSeq([i \in DOMAIN found_headings |->
                          clean_text(get_text(found_headings[i]))],
                      LAMBDA text : text # <<>>)
        found_paragraphs == find_all(content, ParagraphTags)
        paragraphs ==
            SelectSeq([i \in DOMAIN found_paragraphs |->
                          clean_text(get_text(found_paragraphs[i]))],
                      LAMBDA text : text # <<>> /\ Len(text) > MinParagraphLength)
        visible_text == clean_text(get_text(content))
        all_text_parts ==
            (IF title # <<>> THEN <<TitlePrefix \o title>> ELSE <<>>) \o
            (IF headings # <<>>
             THEN <<HeadingsPrefix \o str_join(HeadingsSeparator, headings)>>
             ELSE <<>>) \o
            (IF paragraphs # <<>>
             THEN <<str_join(PartsSeparator, paragraphs)>> ELSE <<>>)
        combined_text == IF all_text_parts # <<>>
                         THEN str_join(PartsSeparator, all_text_parts)
                         ELSE visible_text
    IN  [url |-> url, title |-> title, headings |-> headings,
         paragraphs |-> paragraphs, text |-> combined_text,
         text_length |-> Len(combined_text),
         \* the local visible_text, kept beside the values returned
         visible_text |-> visible_text]

\* the strings of the documents: two that clean to more than
\* MinParagraphLength characters, one of them across a line break, and a
\* short one with an entity and a run of spaces
LongX == Repeat(<<"X">>, MinParagraphLength + 1)

LongY ==
    <<" ">> \o Repeat(<<"Y">>, MinParagraphLength) \o <<"\n", " ", "Y", " ">>

ShortZ == <<"Z", " ", " ", "&amp;", "Z">>

DocTags ==
    RemovedTags \cup ParagraphTags \cup {"title", "h1", "h2", "span", "li"}

\* <tag>text</tag>
Leaf(tag, text) == Elem(tag, <<Text(text)>>)

\* <outer>text1<inner>text2</inner></outer>
Nested(outer, text1, inner, text2) ==
    Elem(outer, <<Text(text1), Leaf(inner, text2)>>)

\* documents of two elements under the root, the first with an element
\* nested in it
Documents ==
    { Elem("html", <<Nested(outer, text1, inner, text2), Leaf(tag, text3)>>) :
        outer \in DocTags, inner \in DocTags, tag \in DocTags,
        text1 \in {LongX, ShortZ}, text2 \in {LongY, ShortZ},
        text3 \in {LongX} }

NoContent ==
    [url |-> BaseUrl, title |-> <<>>, headings |-> <<>>, paragraphs |-> <<>>,
     text |-> <<>>, text_length |-> 0, visible_text |-> <<>>]

ExtractInit ==
    /\ CrawlerIdle
    /\ KbIdle
    /\ \E soup \in Documents :
          invocation = [op |-> "extract_content", returned |-> FALSE,
                        soup |-> soup, url |-> BaseUrl, content |-> NoContent]

\* content = self.extract_content(response.text, url)
ExtractContent ==
    /\ ~ invocation.returned
    /\ invocation' =
           [invocation EXCEPT
               !.returned = TRUE,
               !.content = extract_content(invocation.soup, invocation.url)]
    /\ UNCHANGED <<crawlerVars, kbVars>>

ExtractNext == ExtractContent

ExtractSpec == ExtractInit /\ [][ExtractNext]_vars

(***************************************************************************)
(* rag_pipeline.py: answer_question, with retrieve_context,                *)
(* construct_prompt, generate_answer and format_response as functions of   *)
(* the pipeline p and of what the providers do                             *)
(***************************************************************************)
MaxQuestionCalls == 2

\* the empty string where a URL is expected
NoUrl == Url("", "", <<>>, "", FALSE)

DocN  == KbPage(NoUrl, "N", 0, <<"b">>)
DocA2 == KbPage(PageA, "A again", 2, <<"b", "c">>)

\* the knowledge bases a pipeline is given: never built, built, built from
\* pages that share a URL or have none, and left with another model's
\* dimension by a failed load
QuestionKbs ==
    { NewKnowledgeBase(DefaultModel),
      EarlierKb,
      build_from_crawled_data(NewKnowledgeBase(DefaultModel),
                              <<DocN, DocA, DocB, DocA2>>, 3, 1, "none").kb,
      load(NewKnowledgeBase(OtherModel), EarlierSave, "load_model").kb }

\* __init__ (19-50): the fields of a RAGPipeline
RAGPipeline_init(knowledge_base, groq_api_key, google_api_key, groq_raised, gemini_raised) ==
    [knowledge_base |-> knowledge_base,
     groq_client    |-> groq_api_key # "" /\ ~ groq_raised,
     gemini_model   |-> google_api_key # "" /\ ~ gemini_raised]

\* a chat message; NotAMessage is an entry that is not a dict
Message(role, content) == [is_dict |-> TRUE, role |-> role, content |-> content]
NotAMessage == [is_dict |-> FALSE, role |-> "", content |-> <<>>]

Histories ==
    { <<>>,
      << Message("user", <<"b">>) >>,
      << Message("user", <<"b">>), NotAMessage >>,
      << NotAMessage, Message("user", <<"b">>),
         Message("assistant", <<"x">>), Message("user", <<"x">>) >> }

NoPrompt == [question |-> <<>>, context |-> <<>>, history |-> <<>>]

\* construct_prompt(question, context, history): msg.get raises on an entry
\* of history[-3:] that is not a dict
construct_prompt(question, context, history) ==
    LET n     == Len(history)
        last3 == SubSeq(history, IF n > 3 THEN n - 2 ELSE 1, n)
    IN  IF \E i \in DOMAIN last3 : ~ last3[i].is_dict
        THEN [raised |-> TRUE, prompt |-> NoPrompt]
        ELSE [raised |-> FALSE,
              prompt |->
                  [question |-> question,
                   context  |-> [i \in DOMAIN context |->
                                    [source |-> i,
                                     title  |-> context[i].title,
                                     url    |-> context[i].url,
                                     text   |-> context[i].text]],
                   history  |-> [i \in DOMAIN last3 |->
                                    [role    |-> last3[i].role,
                                     content |-> last3[i].content]]]]

\* generate_answer(prompt) in one step; groq_ok, gemini_ok: what the
\* provider does if it is called
generate_answer(p, prompt, groq_ok, gemini_ok) ==
    LET groq_calls == IF p.groq_client
                      THEN << [provider |-> "groq", ok |-> groq_ok,
                               prompt |-> prompt] >>
                      ELSE <<>>
        all_calls  == Append(groq_calls, [provider |-> "gemini",
                                          ok |-> gemini_ok, prompt |-> prompt])
    IN  IF p.groq_client /\ groq_ok
        THEN [raised |-> FALSE, value |-> GroqAnswer,
              provider_calls |-> groq_calls]
        ELSE IF p.gemini_model
        THEN IF gemini_ok
             THEN [raised |-> FALSE, value |-> GeminiAnswer,
                   provider_calls |-> all_calls]
             ELSE [raised |-> TRUE, value |-> BothFailed,
                   provider_calls |-> all_calls]
        ELSE [raised |-> TRUE, value |-> NoneAvailable,
              provider_calls |-> groq_calls]

\* the loop of format_response over sources
RECURSIVE unique_sources(_, _)
unique_sources(sources, seen_urls) ==
    IF sources = <<>> THEN <<>>
    ELSE LET source == Head(sources)
         IN  IF source.url # NoUrl /\ source.url \notin seen_urls
             THEN << [url |-> source.url, title |-> source.title,
                      similarity_score |-> source.similarity_score] >>
                  \o unique_sources(Tail(sources),
                                    seen_urls \cup {source.url})
             ELSE unique_sources(Tail(sources), seen_urls)

\* a response dict; has_error: the 'error' key is present
ResponseDict(answer, sources, has_error, error) ==
    [answer |-> answer, sources |-> sources, num_sources |-> Len(sources),
     has_error |-> has_error, error |-> error]

\* format_response(answer, sources)
format_response(answer, sources) ==
    ResponseDict([kind |-> "generated", text |-> answer],
              unique_sources(sources, {}), FALSE, "")

NoInformation ==
    "I couldn't find any relevant information in the knowledge base to answer your question."

\* the return of lines 256-260
NoInformationResponse ==
    ResponseDict([kind |-> "fixed", text |-> NoInformation], <<>>, FALSE, "")

\* the return of the except clause (277-282)
ErrorResponse(e) ==
    ResponseDict([kind |-> "error", text |-> e], <<>>, TRUE, e)

SearchFailed == "search failed"
PromptFailed == "'str' object has no attribute 'get'"

\* what a call of answer_question leaves: whether it raised, what it
\* returned, and what it did on the way
Answered(raised, response, retrieval, prompt_raised, provider_calls) ==
    [raised |-> raised, response |-> response, retrieval |-> retrieval,
     prompt_raised |-> prompt_raised, provider_calls |-> provider_calls]

NoResponse == ResponseDict([kind |-> "none", text |-> ""], <<>>, FALSE, "")

\* answer_question without the try / except of lines 251-282
AnswerQuestionNoCatch(p, question, chat_history, top_k, env) ==
    LET retrieval == search(p.knowledge_base, question, top_k, env.rejects_k0)
    IN  IF retrieval.raised
        THEN Answered(TRUE, NoResponse, retrieval, FALSE, <<>>)
        ELSE IF retrieval.results = <<>>
        THEN Answered(FALSE, NoInformationResponse, retrieval, FALSE, <<>>)
        ELSE LET cp == construct_prompt(question, retrieval.results,
                                        chat_history)
             IN  IF cp.raised
                 THEN Answered(TRUE, NoResponse, retrieval, TRUE, <<>>)
                 ELSE LET g == generate_answer(p, cp.prompt, env.groq_ok,
                                               env.gemini_ok)
                      IN  IF g.raised
                          THEN Answered(TRUE, NoResponse, retrieval, FALSE,
                                        g.provider_calls)
                          ELSE Answered(FALSE,
                                   format_response(g.value, retrieval.results),
                                   retrieval, FALSE, g.provider_calls)

\* answer_question(question, chat_history, top_k); question is a str, so the
\* slice question[:100] of line 249, outside the try, does not raise
answer_question(p, question, chat_history, top_k, env) ==
    LET retrieval == search(p.knowledge_base, question, top_k, env.rejects_k0)
    IN  IF retrieval.raised
        THEN Answered(FALSE, ErrorResponse(SearchFailed), retrieval, FALSE,
                      <<>>)
        ELSE IF retrieval.results = <<>>
        THEN Answered(FALSE, NoInformationResponse, retrieval, FALSE, <<>>)
        ELSE LET cp == construct_prompt(question, retrieval.results,
                                        chat_history)
             IN  IF cp.raised
                 THEN Answered(FALSE, ErrorResponse(PromptFailed), retrieval,
                               TRUE, <<>>)
                 ELSE LET g == generate_answer(p, cp.prompt, env.groq_ok,
                                               env.gemini_ok)
                      IN  IF g.raised
                          THEN Answered(FALSE, ErrorResponse(g.value),
                                        retrieval, FALSE, g.provider_calls)
                          ELSE Answered(FALSE,
                                   format_response(g.value, retrieval.results),
                                   retrieval, FALSE, g.provider_calls)

\* what the environment does during a call
Environments ==
    [rejects_k0 : BOOLEAN, groq_ok : BOOLEAN, gemini_ok : BOOLEAN]

NotAnswered ==
    Answered(FALSE, NoResponse,
             [kb |-> NewKnowledgeBase(DefaultModel), raised |-> FALSE,
              encoded |-> FALSE, results |-> <<>>], FALSE, <<>>)

\* a pipeline and its last call of answer_question
QuestionInit ==
    /\ CrawlerIdle
    /\ KbIdle
    /\ \E k \in QuestionKbs, groq_api_key \in ApiKeys,
          google_api_key \in ApiKeys, groq_raised \in BOOLEAN,
          gemini_raised \in BOOLEAN :
          invocation =
              [op |-> "answer_question",
               pipeline |-> RAGPipeline_init(k, groq_api_key, google_api_key,
                                             groq_raised, gemini_raised),
               question |-> <<>>, chat_history |-> <<>>, top_k |-> 0,
               answered |-> NotAnswered, calls |-> 0]

AnswerQuestion ==
    /\ invocation.calls < MaxQuestionCalls
    /\ \E question \in Queries, chat_history \in Histories, top_k \in TopKs,
          env \in Environments :
          \E a \in {answer_question(invocation.pipeline, question,
                                    chat_history, top_k, env)} :
              invocation' = [invocation EXCEPT
                                !.question = question,
                                !.chat_history = chat_history,
                                !.top_k = top_k,
                                !.answered = a,
                                !.calls = @ + 1]
    /\ UNCHANGED <<crawlerVars, kbVars>>

QuestionNext == AnswerQuestion

QuestionSpec == QuestionInit /\ [][QuestionNext]_vars

(***************************************************************************)
(* app.py: the session state and the handlers of the buttons               *)
(***************************************************************************)
MaxSessionActions == 3

\* Python's None
None == [is_none |-> TRUE]

\* initialize_session_state() on a new session
SessionState(k, rag_pipeline, chat_history, crawled_url, kb_stats) ==
    [kb |-> k, rag_pipeline |-> rag_pipeline, chat_history |-> chat_history,
     crawled_url |-> crawled_url, kb_stats |-> kb_stats]

initialize_session_state == SessionState(None, None, <<>>, None, None)

\* an entry of chat_history
ChatMessage(role, content, sources) ==
    [is_dict |-> TRUE, role |-> role, content |-> content,
     sources |-> sources]

\* what crawler.crawl() may return to crawl_and_build_kb
CrawlResults == { <<>>, <<DocA>>, <<DocA, DocB>> }

\* the environment of crawl_and_build_kb: whether KnowledgeBase() raises,
\* where the build fails, the keys of os.getenv, whether a client
\* constructor raises
BuildEnvironments ==
    [kb_raised : BOOLEAN, fail : BuildFailures, groq_key : ApiKeys,
     google_key : ApiKeys, groq_raised : BOOLEAN, gemini_raised : BOOLEAN]

\* crawl_and_build_kb that stores the knowledge base before the key check
CrawlAndBuildStoresEarly(s, url, crawled_pages, chunk_size, chunk_overlap, env) ==
    IF crawled_pages = <<>> \/ env.kb_raised
    THEN [session |-> s, success |-> FALSE]
    ELSE LET b == build_from_crawled_data(NewKnowledgeBase(DefaultModel),
                      crawled_pages, chunk_size, chunk_overlap, env.fail)
         IN  IF b.raised THEN [session |-> s, success |-> FALSE]
             ELSE IF env.groq_key = ""
             THEN [session |-> [s EXCEPT !.kb = b.kb], success |-> FALSE]
             ELSE [session |->
                       [s EXCEPT
                           !.kb = b.kb,
                           !.rag_pipeline =
                               RAGPipeline_init(b.kb, env.groq_key,
                                   env.google_key, env.groq_raised,
                                   env.gemini_raised),
                           !.crawled_url = url,
                           !.kb_stats = get_stats(b.kb)],
                   success |-> TRUE]

\* crawl_and_build_kb(url, max_depth, max_pages, chunk_size, chunk_overlap),
\* crawled_pages being what crawler.crawl() returned
crawl_and_build_kb(s, url, crawled_pages, chunk_size, chunk_overlap, env) ==
    IF crawled_pages = <<>> \/ env.kb_raised
    THEN [session |-> s, success |-> FALSE]
    ELSE LET b == build_from_crawled_data(NewKnowledgeBase(DefaultModel),
                      crawled_pages, chunk_size, chunk_overlap, env.fail)
         IN  IF b.raised \/ env.groq_key = ""
             THEN [session |-> s, success |-> FALSE]
             ELSE [session |->
                       [s EXCEPT
                           !.kb = b.kb,
                           !.rag_pipeline =
                               RAGPipeline_init(b.kb, env.groq_key,
                                   env.google_key, env.groq_raised,
                                   env.gemini_raised),
                           !.crawled_url = url,
                           !.kb_stats = get_stats(b.kb)],
                   success |-> TRUE]

\* the Send branch of display_chat_interface (366-392); completed: the
\* assistant message was appended
send(s, user_question, env) ==
    IF user_question = <<>> THEN [session |-> s, completed |-> FALSE]
    ELSE LET asked == [s EXCEPT !.chat_history =
                          Append(@, ChatMessage("user", user_question, <<>>))]
         IN  IF s.rag_pipeline = None
             THEN [session |-> asked, completed |-> FALSE]
             ELSE LET a == answer_question(s.rag_pipeline, user_question,
                                           asked.chat_history, 5, env)
                  IN  IF a.raised
                      THEN [session |-> asked, completed |-> FALSE]
                      ELSE [session |->
                                [asked EXCEPT !.chat_history =
                                    Append(@, ChatMessage("assistant",
                                               a.response.answer,
                                               a.response.sources))],
                            completed |-> TRUE]

\* the Reset Knowledge Base branch (317-323)
reset(s) == SessionState(None, None, <<>>, None, None)

\* the Clear Chat History branch (312-314)
clear(s) == [s EXCEPT !.chat_history = <<>>]

\* a session, the handler that ran last and how it ended
Session(s, handler, ok, actions) ==
    [op |-> "session", session |-> s, handler |-> handler, ok |-> ok,
     actions |-> actions]

SessionInit ==
    /\ CrawlerIdle
    /\ KbIdle
    /\ invocation = Session(initialize_session_state, "none", FALSE, 0)

\* the Crawl & Build button of display_setup_page, shown on every page
CrawlAndBuild ==
    /\ invocation.actions < MaxSessionActions
    /\ \E url \in {NoUrl, BadUrl, BaseUrl}, crawled_pages \in CrawlResults,
          params \in ChunkParams, env \in BuildEnvironments :
          invocation' =
              IF url = NoUrl \/ ~ is_valid_url(url)
              THEN Session(invocation.session, "rejected", FALSE,
                           invocation.actions + 1)
              ELSE LET r == crawl_and_build_kb(invocation.session, url,
                                crawled_pages, params[1], params[2], env)
                   IN  Session(r.session, "crawl_and_build_kb", r.success,
                               invocation.actions + 1)
    /\ UNCHANGED <<crawlerVars, kbVars>>

\* the chat interface is displayed when kb is set (main, 406-411)
Send ==
    /\ invocation.actions < MaxSessionActions
    /\ invocation.session.kb # None
    /\ \E user_question \in Queries \cup {<<>>}, env \in Environments :
          LET r == send(invocation.session, user_question, env)
          IN  invocation' = Session(r.session, "send", r.completed,
                                    invocation.actions + 1)
    /\ UNCHANGED <<crawlerVars, kbVars>>

ClearChatHistory ==
    /\ invocation.actions < MaxSessionActions
    /\ invocation.session.kb # None
    /\ invocation' = Session(clear(invocation.session), "clear", TRUE,
                             invocation.actions + 1)
    /\ UNCHANGED <<crawlerVars, kbVars>>

ResetKnowledgeBase ==
    /\ invocation.actions < MaxSessionActions
    /\ invocation.session.kb # None
    /\ invocation' = Session(reset(invocation.session), "reset", TRUE,
                             invocation.actions + 1)
    /\ UNCHANGED <<crawlerVars, kbVars>>

SessionNext ==
    \/ CrawlAndBuild
    \/ Send
    \/ ClearChatHistory
    \/ ResetKnowledgeBase

SessionSpec == SessionInit /\ [][SessionNext]_vars

(***************************************************************************)
(* Shorthands used by the properties.                                      *)
(***************************************************************************)
Recorded(resp) ==
    resp.status = "ok" /\ resp.html /\ resp.text_length > MinTextLength

FetchedUrls == {fetch_log[i].url : i \in DOMAIN fetch_log}

RecordedUrls == {crawled_data[i].url : i \in DOMAIN crawled_data}

NonDecreasingDepth(s) ==
    \A i, j \in DOMAIN s : i < j => s[i].depth <= s[j].depth

(***************************************************************************)
(* C1: at every step of every crawl the number of recorded pages is at     *)
(* most max_pages and every recorded page has depth at most max_depth.     *)
(***************************************************************************)
C1_PageAndDepthBudget ==
    /\ Len(crawled_data) <= max_pages
    /\ \A i \in DOMAIN crawled_data : crawled_data[i].depth <= max_depth

\* the page budget was met with entries still in the frontier, and a page of
\* depth max_depth was recorded
C1_Witness ==
    /\ pc = "done"
    /\ max_pages >= 2
    /\ max_depth >= 1
    /\ Len(crawled_data) = max_pages
    /\ queue # <<>>
    /\ \E i \in DOMAIN crawled_data : crawled_data[i].depth = max_depth

(***************************************************************************)
(* C2: the crawl is domain-scoped: every URL enqueued, fetched or recorded *)
(* has the netloc of the base URL.                                         *)
(***************************************************************************)
C2_DomainScoped ==
    /\ \A i \in DOMAIN fetch_log : fetch_log[i].url.netloc = base_url.netloc
    /\ \A i \in DOMAIN crawled_data : crawled_data[i].url.netloc = base_url.netloc
    /\ \A i \in DOMAIN enqueue_log : enqueue_log[i].url.netloc = base_url.netloc
    /\ \A i \in DOMAIN queue : queue[i].url.netloc = base_url.netloc

\* a recorded page carrying a link to another domain had its links followed
C2_Witness ==
    /\ pc = "done"
    /\ \E i \in DOMAIN fetch_log :
         /\ Recorded(fetch_log[i].resp)
         /\ fetch_log[i].depth < max_depth
         /\ \E k \in DOMAIN Anchors(site, fetch_log[i].url) :
              Anchors(site, fetch_log[i].url)[k] = ExtUrl
    /\ Len(enqueue_log) >= 3
    /\ Len(crawled_data) >= 2

(***************************************************************************)
(* C3: every URL on which a fetch is attempted, from the first one on, is  *)
(* allowed by the loaded robots policy.                                    *)
(***************************************************************************)
C3_EveryFetchAllowed ==
    \A i \in DOMAIN fetch_log : fetch_log[i].allowed

(***************************************************************************)
(* C4: is_valid_url_for_crawling(url) is false when the URL is not a       *)
(* well-formed http/https URL, or is of another domain than the base URL,  *)
(* or is visited, or has a path ending (case-insensitively) in a           *)
(* denylisted extension, or is disallowed by robots; and true otherwise.   *)
(***************************************************************************)
C4_NotHttpUrl(url) == ~ url.wf \/ url.scheme \notin {"http", "https"}

C4_OtherDomain(url) == url.netloc # base_url.netloc

C4_Denylisted(url) ==
    \E k \in 1..Len(url.path) :
        lower(SubSeq(url.path, k, Len(url.path))) \in skip_extensions

C4_RobotsDisallows(url) ==
    /\ robot_parser.present
    /\ url \notin raising_urls
    /\ \E d \in robot_parser.disallow :
          startswith(IF url.path = <<>> THEN <<"/">> ELSE url.path, d)

C4_Eligibility ==
    \A url \in AllUrls :
        is_valid_url_for_crawling(url) <=>
            ~ ( \/ C4_NotHttpUrl(url)
                \/ C4_OtherDomain(url)
                \/ url \in visited_urls
                \/ C4_Denylisted(url)
                \/ C4_RobotsDisallows(url) )

\* one state in which each of the five reasons rejects a URL and one URL passes
C4_Witness ==
    /\ PageA \in visited_urls
    /\ ~ is_valid_url_for_crawling(PageA)
    /\ C4_RobotsDisallows(PageB) /\ ~ is_valid_url_for_crawling(PageB)
    /\ ~ is_valid_url_for_crawling(PdfUrl)
    /\ ~ is_valid_url_for_crawling(ExtUrl)
    /\ ~ is_valid_url_for_crawling(FtpUrl)
    /\ ~ is_valid_url_for_crawling(BadUrl)
    /\ is_valid_url_for_crawling(PageC)

(***************************************************************************)
(* C5: between any two consecutive fetch attempts of a crawler exactly one *)
(* politeness delay occurs, whatever the outcome of the earlier attempt.   *)
(***************************************************************************)
C5_OneDelayBetweenFetches ==
    \A i \in DOMAIN fetch_log : i > 1 => fetch_log[i].delays = 1

\* a fetch followed a recorded page and another followed a failed fetch
C5_Witness ==
    /\ Len(fetch_log) >= 3
    /\ Recorded(fetch_log[1].resp)
    /\ fetch_log[2].resp.status = "timeout"

(***************************************************************************)
(* C6: when a fetch fails (timeout, HTTP or transport error, any other     *)
(* exception) no page is recorded for the URL, none of its links are       *)
(* enqueued, the URL stays visited and is not fetched again, and the crawl *)
(* goes on with its loop.                                                  *)
(***************************************************************************)
LastFailed ==
    fetch_log # <<>> /\ fetch_log[Len(fetch_log)].resp.status # "ok"

C6_FailedFetch ==
    /\ [](\A i \in DOMAIN fetch_log :
            fetch_log[i].resp.status # "ok" =>
                /\ fetch_log[i].url \notin RecordedUrls
                /\ fetch_log[i].url \in visited_urls
                /\ \A j \in DOMAIN fetch_log :
                      j # i => fetch_log[j].url # fetch_log[i].url)
    /\ [][(pc = "fetch" /\ LastFailed' /\ Len(fetch_log') > Len(fetch_log)) =>
            (crawled_data' = crawled_data /\ ~ result'.some /\ pc' = "enqueue")]_vars
    /\ [][(pc = "enqueue" /\ LastFailed) =>
            (queue' = queue /\ enqueue_log' = enqueue_log /\ pc' = "sleep")]_vars
    /\ [][(pc = "sleep" /\ LastFailed) => (pc' = "loop" /\ queue' = queue)]_vars

\* a fetch timed out, a later page was still recorded, and another fetch
\* ended in an HTTP error
C6_Witness ==
    \E i, j, l \in DOMAIN fetch_log :
        /\ i < l
        /\ fetch_log[i].resp.status = "timeout"
        /\ fetch_log[j].resp.status = "http_error"
        /\ Recorded(fetch_log[l].resp)

C7_WitnessEvaluationError ==
    /\ robots_load = "ok"
    /\ robots_txt = {<<"/", "b">>}
    /\ raising_urls = {PageB}
    /\ PageB \in FetchedUrls

(***************************************************************************)
(* C8: the output is in fetch order and breadth-first: recorded depths are *)
(* non-decreasing along crawled_data, the depth-0 page comes first, the    *)
(* frontier's depths are non-decreasing from head to tail, and the         *)
(* frontier is FIFO (taken from the head, appended at the tail).           *)
(***************************************************************************)
RecordedFetches == SelectSeq(fetch_log, LAMBDA f : Recorded(f.resp))

C8_BreadthFirst ==
    /\ [](/\ NonDecreasingDepth(crawled_data)
          /\ NonDecreasingDepth(queue)
          /\ (\E i \in DOMAIN crawled_data : crawled_data[i].depth = 0) =>
                 (crawled_data[1].depth = 0 /\ crawled_data[1].url = base_url)
          /\ Len(crawled_data) = Len(RecordedFetches)
          /\ \A i \in DOMAIN crawled_data :
                /\ crawled_data[i].url = RecordedFetches[i].url
                /\ crawled_data[i].depth = RecordedFetches[i].depth)
    /\ [][(pc = "loop" /\ queue' # queue) =>
            (queue' = Tail(queue) /\ current' = Head(queue))]_vars
    /\ [][pc = "enqueue" =>
            (/\ Len(queue') >= Len(queue)
             /\ SubSeq(queue', 1, Len(queue)) = queue)]_vars

\* pages of depth 0, 1 and 2 were recorded
C8_Witness ==
    /\ pc = "done"
    /\ Len(crawled_data) >= 3
    /\ \E i \in DOMAIN crawled_data : crawled_data[i].depth = 1
    /\ crawled_data[Len(crawled_data)].depth = 2

(***************************************************************************)
(* C9: every started crawl() returns; it starts with the frontier holding  *)
(* only (base_url, 0); when it returns the frontier is empty or the number *)
(* of recorded pages has reached max_pages.                                *)
(***************************************************************************)
C9_Terminates ==
    /\ (pc \in {"loop", "fetch", "enqueue", "sleep"}) ~> (pc = "done")
    /\ [](pc = "done" => (queue = <<>> \/ Len(crawled_data) >= max_pages))
    /\ [][(pc \in {"ready", "done"} /\ pc' = "loop") =>
            queue' = << [url |-> base_url, depth |-> 0] >>]_vars

\* a crawl returned because the frontier drained, below the page budget
C9_Witness ==
    /\ pc = "done"
    /\ queue = <<>>
    /\ Len(crawled_data) < max_pages
    /\ Len(fetch_log) >= 4

(***************************************************************************)
(* C10: on a site whose root links to two same-domain pages and one        *)
(* external page, all three same-domain pages being recordable and nothing *)
(* being disallowed, crawl with max_depth = 1 and max_pages = 10 records   *)
(* exactly the root at depth 0 and the two children at depth 1, and never  *)
(* fetches or records the external page.                                   *)
(***************************************************************************)
C10_ScenarioRun ==
    /\ site = ScenarioSite
    /\ max_depth = 1
    /\ max_pages = 10
    /\ \A i \in DOMAIN fetch_log : Recorded(fetch_log[i].resp)
    /\ \A url \in {BaseUrl, PageA, PageB} : is_allowed_by_robots(url)

C10_EndToEnd ==
    (C10_ScenarioRun /\ pc = "done") =>
        /\ Len(crawled_data) = 3
        /\ [i \in 1..3 |-> <<crawled_data[i].url, crawled_data[i].depth>>] =
              << <<BaseUrl, 0>>, <<PageA, 1>>, <<PageB, 1>> >>
        /\ ExtUrl \notin FetchedUrls \cup RecordedUrls

\* the scenario's crawl has returned
C10_Witness ==
    /\ C10_ScenarioRun
    /\ pc = "done"
    /\ Len(fetch_log) = 3

(***************************************************************************)
(* Claims about the knowledge base (KBSpec).                               *)
(***************************************************************************)
\* C11: construction fails, and does not return normally, when
\* build_from_crawled_data is given no page or pages that yield no chunk, and
\* when build_vector_store is given embeddings and chunks of different
\* counts or no chunk at all.
C11_ConstructionErrors ==
    /\ ( /\ last_call.op = "build_from_crawled_data"
         /\ \/ last_call.pages = <<>>
            \/ \A i \in DOMAIN last_call.pages : last_call.pages[i].text = <<>>
            \/ last_call.cks = <<>> )
       => last_call.raised
    /\ ( /\ last_call.op = "build_vector_store"
         /\ \/ Len(last_call.embeddings) # Len(last_call.cks)
            \/ Len(last_call.cks) = 0 )
       => last_call.raised

\* build_vector_store, given no chunk and no embedding, raised
C11_Witness ==
    /\ last_call.op = "build_vector_store"
    /\ last_call.cks = <<>>
    /\ last_call.embeddings = <<>>
    /\ last_call.raised

\* C12: a build that raises leaves chunks, chunk_metadata and index exactly
\* as they were before the call.
C12_FailedBuildLeavesFields ==
    [][ ( /\ last_call'.op \in {"build_from_crawled_data", "build_vector_store"}
          /\ last_call'.raised )
        => ( /\ chunks' = chunks
             /\ chunk_metadata' = chunk_metadata
             /\ index' = index ) ]_vars

\* C13: in every state the index holds as many vectors as there are chunks
\* and chunk_metadata entries (none when there is no index), and position by
\* position the vector, the chunk and the metadata belong to the same chunk.
C13_IndexAndChunksAligned ==
    /\ ntotal(index) = Len(chunks)
    /\ Len(chunk_metadata) = Len(chunks)
    /\ \A i \in DOMAIN chunks :
          /\ index.vectors[i].of = chunks[i]
          /\ chunk_metadata[i].text = chunks[i]

\* C14: a search that returns gives at most top_k results, ranked exactly
\* 1, 2, ..., n in order, and no result when there is no chunk.
C14_RanksAreOneToN ==
    (last_call.op = "search" /\ ~ last_call.raised)
    => /\ Len(last_call.results) <= last_call.top_k
       /\ \A r \in DOMAIN last_call.results : last_call.results[r].rank = r
       /\ chunks = <<>> => last_call.results = <<>>

\* the metadata a search result carries
ResultMetadata(res) ==
    [text |-> res.text, chunk_index |-> res.chunk_index,
     total_chunks |-> res.total_chunks, url |-> res.url, title |-> res.title,
     depth |-> res.depth]

\* the distance of the i-th vector of the index to the embedded query
QueryDistance(i) ==
    L2sq(index.vectors[i].v, Normalize(encode(model, last_call.query)))

\* C15: on a built knowledge base search(query, top_k), top_k >= 1, returns
\* exactly min(top_k, chunk count) results; the result of rank r carries the
\* metadata of the chunk whose vector is the r-th nearest to the query
\* vector, with similarity_score = 1 - distance; distances do not decrease
\* and similarity scores do not increase along the ranks.
C15_NearestChunksInOrder ==
    (built /\ last_call.op = "search" /\ last_call.top_k >= 1)
    => LET res == last_call.results
       IN  /\ ~ last_call.raised
           /\ Len(res) = Min(last_call.top_k, Len(chunks))
           /\ \A r \in DOMAIN res :
                 /\ res[r].rank = r
                 /\ \E i \in DOMAIN chunk_metadata :
                       /\ ResultMetadata(res[r]) = chunk_metadata[i]
                       /\ res[r].similarity_score = One - QueryDistance(i)
                       /\ Cardinality({j \in DOMAIN chunk_metadata :
                              QueryDistance(j) < QueryDistance(i)}) < r
                       /\ Cardinality({j \in DOMAIN chunk_metadata :
                              QueryDistance(j) <= QueryDistance(i)}) >= r
           /\ \A r, t \in DOMAIN res :
                 r < t => res[r].similarity_score >= res[t].similarity_score

\* C16: on a knowledge base without an index or without chunks, search
\* returns the empty sequence, raises nothing and does not call the
\* embedding model, whatever the query and top_k.
C16_FailSoftOnAbsence ==
    (last_call.op = "search" /\ (~ index.present \/ chunks = <<>>))
    => /\ ~ last_call.raised
       /\ last_call.results = <<>>
       /\ ~ last_call.encoded

\* a search was made on an index that holds vectors while there is no chunk
C16_Witness ==
    /\ last_call.op = "search"
    /\ last_call.top_k = 5
    /\ index.present
    /\ ntotal(index) > 0
    /\ chunks = <<>>
    /\ last_call.results = <<>>

\* the knowledge base as it was at the last successful save: its stored
\* fields are those of the directory, its model the one recorded at the save
SavedKb ==
    Kb(disk.metadata_file.embedding_model_name, snapshot.model,
       disk.index_file.index, disk.metadata_file.chunks,
       disk.metadata_file.chunk_metadata, disk.metadata_file.dimension)

\* C17: after save(dir) of a built knowledge base, a load(dir) that returns
\* (into the same or a fresh object) yields the chunks, chunk_metadata and
\* dimension that were saved, and every search(q, k) gives the same results
\* (chunks, ranks, similarity scores) as on the saved knowledge base.
C17_RoundTrip ==
    ( /\ last_call.op = "load"
      /\ ~ last_call.raised
      /\ snapshot.valid
      /\ snapshot.built )
    => /\ chunks = SavedKb.chunks
       /\ chunk_metadata = SavedKb.chunk_metadata
       /\ dimension = SavedKb.dimension
       /\ \A q \in Queries, k \in TopKs, rejects_k0 \in BOOLEAN :
             LET here  == search(kb, q, k, rejects_k0)
                 saved == search(SavedKb, q, k, rejects_k0)
             IN  /\ here.raised = saved.raised
                 /\ here.encoded = saved.encoded
                 /\ here.results = saved.results

\* C18: when load returns, the model identifier is the one stored in the
\* metadata artifact and the loaded model is the model of that identifier;
\* the model was reloaded inside load exactly when the stored identifier
\* differed from the configured one.
C18_ModelMatchesStoredIdentifier ==
    [][ (last_call'.op = "load" /\ ~ last_call'.raised)
        => /\ embedding_model_name' = disk.metadata_file.embedding_model_name
           /\ model' = disk.metadata_file.embedding_model_name
           /\ last_call'.reloaded <=>
                 (disk.metadata_file.embedding_model_name
                     # embedding_model_name) ]_vars

\* C19: a save that fails leaves in the directory an index artifact and a
\* metadata artifact of one and the same knowledge-base state: both as they
\* were before the call, or both those of the knowledge base being saved.
C19_FailedSaveLeavesDirectoryConsistent ==
    [][ (last_call'.op = "save" /\ last_call'.raised)
        => \/ disk' = disk
           \/ disk' = [index_file |-> IndexFile(kb),
                       metadata_file |-> MetadataFile(kb)] ]_vars

FiveStats == {"total_chunks", "total_vectors", "embedding_dimension",
              "unique_sources", "model_name"}

ThreeStats == {"total_chunks", "total_vectors", "embedding_dimension"}

DistinctSources == {chunk_metadata[i].url : i \in DOMAIN chunk_metadata}

\* C20 as stated: in every state get_stats reports all five of chunk count,
\* vector count of the index, embedding dimension, number of distinct source
\* URLs and model identifier.
C20_FiveStatsInEveryState ==
    last_call.op = "get_stats"
    => /\ DOMAIN last_call.stats = FiveStats
       /\ last_call.stats.total_chunks = Len(chunks)
       /\ last_call.stats.total_vectors = ntotal(index)
       /\ last_call.stats.embedding_dimension = dimension
       /\ last_call.stats.unique_sources = Cardinality(DistinctSources)
       /\ last_call.stats.model_name = embedding_model_name

\* C20 amended: with at least one chunk get_stats reports the five values;
\* with no chunk it reports three only: chunk count 0, vector count 0
\* whatever the index holds, and the embedding dimension.
C20_StatsByState ==
    last_call.op = "get_stats"
    => IF chunks # <<>>
       THEN /\ DOMAIN last_call.stats = FiveStats
            /\ last_call.stats.total_chunks = Len(chunks)
            /\ last_call.stats.total_vectors = ntotal(index)
            /\ last_call.stats.embedding_dimension = dimension
            /\ last_call.stats.unique_sources = Cardinality(DistinctSources)
            /\ last_call.stats.model_name = embedding_model_name
       ELSE /\ DOMAIN last_call.stats = ThreeStats
            /\ last_call.stats.total_chunks = 0
            /\ last_call.stats.total_vectors = 0
            /\ last_call.stats.embedding_dimension = dimension

\* get_stats was called with no chunk while the index holds vectors
C20_Witness ==
    /\ last_call.op = "get_stats"
    /\ chunks = <<>>
    /\ ntotal(index) > 0
    /\ last_call.stats.total_vectors = 0

(***************************************************************************)
(* chunk_text.                                                             *)
(***************************************************************************)
ChunkTextReturned == invocation.op = "chunk_text" /\ invocation.calls >= 1

TextsOf(out) == [i \in DOMAIN out |-> out[i].text]

\* C21: chunk_text returns one record per chunk of the splitter, in the
\* splitter's order; the i-th record (counting from 0) has chunk_index = i and
\* total_chunks = the number of records, and carries every key of the given
\* page metadata unchanged; an empty text gives no record.
C21_ChunkRecords ==
    ChunkTextReturned =>
        LET out == invocation.out
            n   == Len(out)
        IN  /\ \A i \in 1..n :
                  /\ out[i].chunk_index = i - 1
                  /\ out[i].total_chunks = n
                  /\ \A key \in DOMAIN invocation.metadata :
                        out[i][key] = invocation.metadata[key]
            /\ \A i, j \in 1..n :
                  out[i].chunk_index = out[j].chunk_index => i = j
            /\ invocation.text # <<>> =>
                  TextsOf(out) = split_text(invocation.text,
                                                invocation.chunk_size,
                                                invocation.chunk_overlap)
            /\ invocation.text = <<>> => n = 0

C21_Witness ==
    /\ ChunkTextReturned
    /\ Len(invocation.out) >= 3
    /\ "depth" \in DOMAIN invocation.metadata
    /\ invocation.out[3].chunk_index = 2
    /\ invocation.out[3].depth = invocation.metadata.depth

StartsOrEndsWithWhitespace(text) ==
    text # <<>> /\ (Head(text) \in Whitespace \/ text[Len(text)] \in Whitespace)

C23_Resolved(href, current_url) ==
    Url(IF href.scheme = "" THEN current_url.scheme ELSE href.scheme,
        IF href.scheme = "" /\ href.netloc = "" THEN current_url.netloc
        ELSE href.netloc,
        href.path, "",
        IF href.scheme = "" THEN current_url.wf ELSE href.wf)

C23_Eligible(url) ==
    /\ ~ C4_NotHttpUrl(url)
    /\ ~ C4_OtherDomain(url)
    /\ url \notin visited_urls
    /\ ~ C4_Denylisted(url)
    /\ ~ C4_RobotsDisallows(url)

C23_EligibleTargets(url) ==
    LET anchors  == Anchors(site, url)
        resolved == [i \in DOMAIN anchors |-> C23_Resolved(anchors[i], url)]
    IN  SelectSeq(resolved, C23_Eligible)

RECURSIVE C25_RecordedLength(_)
C25_RecordedLength(log) ==
    IF log = <<>> THEN 0
    ELSE (IF Recorded(Head(log).resp) THEN Head(log).resp.text_length ELSE 0)
         + C25_RecordedLength(Tail(log))

\* C25: in every state of a constructed crawler get_stats() gives the number
\* of recorded pages, the size of the visited set, the sum of the recorded
\* pages' text lengths and the floor of their average, 0 when no page is
\* recorded; and there are never more recorded pages than visited URLs.
C25_Stats ==
    pc # "new" =>
        LET stats == WebCrawler_get_stats(crawled_data, visited_urls)
            n     == Len(crawled_data)
        IN  /\ stats.pages_crawled = n
            /\ stats.urls_visited = Cardinality(visited_urls)
            /\ stats.total_text_length = C25_RecordedLength(fetch_log)
            /\ n > 0 =>
                  /\ stats.average_text_length * n <= stats.total_text_length
                  /\ stats.total_text_length < (stats.average_text_length + 1) * n
            /\ n = 0 => stats.average_text_length = 0
            /\ stats.pages_crawled <= stats.urls_visited

\* two recorded pages whose average is not whole, beside a visited URL that
\* was dropped
C25_Witness ==
    LET stats == WebCrawler_get_stats(crawled_data, visited_urls)
    IN  /\ stats.pages_crawled = 2
        /\ stats.urls_visited = 3
        /\ stats.total_text_length = 2 * MinTextLength + 3
        /\ stats.average_text_length = MinTextLength + 1

(***************************************************************************)
(* The frontier.                                                           *)
(***************************************************************************)
\* the step that dequeues an entry whose URL is visited fetches nothing,
\* records nothing and goes on with the rest of the queue
C27_VisitedEntrySkipped ==
    pc = "loop" /\ LoopCondition /\ Head(queue).url \in visited_urls =>
        /\ queue' = Tail(queue)
        /\ fetch_log' = fetch_log
        /\ crawled_data' = crawled_data
        /\ visited_urls' = visited_urls
        /\ pc' = "loop"

C28_EnqueueStep ==
    pc = "enqueue" =>
        LET fetched == fetch_log[Len(fetch_log)]
            added   == SubSeq(enqueue_log', Len(enqueue_log) + 1,
                              Len(enqueue_log'))
        IN  /\ queue' = queue \o [i \in DOMAIN added |->
                                     [url |-> added[i].url,
                                      depth |-> added[i].depth]]
            /\ added # <<>> =>
                  /\ Recorded(fetched.resp)
                  /\ crawled_data[Len(crawled_data)] =
                         Page(fetched.url, fetched.depth,
                              fetched.resp.text_length)
                  /\ fetched.depth < max_depth
                  /\ Len(crawled_data) < max_pages
            /\ \A i \in DOMAIN added :
                  /\ added[i].depth = fetched.depth + 1
                  /\ \E k \in DOMAIN Anchors(site, fetched.url) :
                        added[i].url =
                            C23_Resolved(Anchors(site, fetched.url)[k],
                                         fetched.url)
                  /\ C23_Eligible(added[i].url)
                  /\ added[i].url \notin visited_urls
            /\ ~ Recorded(fetched.resp) \/ fetched.depth >= max_depth =>
                  added = <<>>

\* C28: link entries are appended to the frontier only for the links of the
\* page just fetched, at its depth + 1, when that page was recorded, its depth
\* is below max_depth, the link is eligible and unvisited and fewer than
\* max_pages pages are recorded; a dropped page or a page at max_depth adds
\* nothing; no entry ever enqueued is deeper than max_depth.
C28_ChildrenOfRecordedPages ==
    /\ [](\A i \in DOMAIN enqueue_log : enqueue_log[i].depth <= max_depth)
    /\ [][C28_EnqueueStep]_vars

\* the links of a recorded page have been enqueued at depth max_depth, after
\* a dropped page and before a recorded page at max_depth added nothing
C28_Witness ==
    /\ pc = "sleep"
    /\ max_depth = 1
    /\ Len(fetch_log) = 3
    /\ Recorded(fetch_log[1].resp)
    /\ ~ Recorded(fetch_log[2].resp)
    /\ Recorded(fetch_log[3].resp)
    /\ fetch_log[3].depth = max_depth
    /\ Anchors(site, fetch_log[3].url) # <<>>
    /\ Len(enqueue_log) >= 3
    /\ \A i \in DOMAIN enqueue_log : i > 1 => enqueue_log[i].depth = 1

(***************************************************************************)
(* Recording pages.                                                        *)
(***************************************************************************)
\* what the fetch of the entry just dequeued does to crawled_data
C29_FetchStep ==
    pc = "fetch" =>
        LET fetched == fetch_log'[Len(fetch_log')]
            page    == Page(current.url, current.depth,
                            fetched.resp.text_length)
        IN  /\ Len(fetch_log') = Len(fetch_log) + 1
            /\ fetched.url = current.url
            /\ IF /\ fetched.resp.status = "ok"
                  /\ fetched.resp.html
                  /\ fetched.resp.text_length > MinTextLength
               THEN crawled_data' = Append(crawled_data, page)
               ELSE crawled_data' = crawled_data
            /\ pc' = "enqueue"
            /\ queue' = queue

\* C29: a fetch appends its page to crawled_data exactly when it succeeded
\* without HTTP error, the content type is text/html and the text is longer
\* than 100 characters, with the depth of the frontier entry it was dequeued
\* as; every recorded page is longer than 100 characters and was enqueued at
\* its depth; a dropped page leaves crawled_data alone and the crawl goes on.
C29_RecordedIffLongHtml ==
    /\ [](\A i \in DOMAIN crawled_data :
             /\ crawled_data[i].text_length > MinTextLength
             /\ \E j \in DOMAIN enqueue_log :
                   /\ enqueue_log[j].url = crawled_data[i].url
                   /\ enqueue_log[j].depth = crawled_data[i].depth
             /\ \E k \in DOMAIN fetch_log :
                   /\ fetch_log[k].url = crawled_data[i].url
                   /\ fetch_log[k].depth = crawled_data[i].depth
                   /\ fetch_log[k].resp.status = "ok"
                   /\ fetch_log[k].resp.html
                   /\ fetch_log[k].resp.text_length = crawled_data[i].text_length)
    /\ [](Len(crawled_data) = Len(RecordedFetches))
    /\ [][C29_FetchStep]_vars

\* a page of exactly 100 characters was dropped, the page fetched after it
\* was recorded at depth 1, and a non-HTML page fetched after that was dropped
C29_Witness ==
    /\ Len(fetch_log) = 4
    /\ fetch_log[2].resp = Response("ok", TRUE, MinTextLength)
    /\ fetch_log[4].resp = Response("ok", FALSE, MinTextLength + 1)
    /\ Len(crawled_data) = 2
    /\ crawled_data[2].url = fetch_log[3].url
    /\ crawled_data[2].depth = 1
    /\ crawled_data[2].text_length = MinTextLength + 1
    /\ pc = "done"

(***************************************************************************)
(* The visited set.                                                        *)
(***************************************************************************)
\* a step keeps every visited URL; it adds one exactly when it dequeues an
\* entry whose URL is not visited, and that step fetches nothing yet
C30_VisitedStep ==
    /\ visited_urls \subseteq visited_urls'
    /\ visited_urls' # visited_urls =>
          /\ pc = "loop" /\ LoopCondition
          /\ Head(queue).url \notin visited_urls
    /\ pc = "loop" /\ LoopCondition /\ Head(queue).url \notin visited_urls =>
          /\ visited_urls' = visited_urls \cup {Head(queue).url}
          /\ queue' = Tail(queue)
          /\ current' = Head(queue)
          /\ fetch_log' = fetch_log
          /\ pc' = "fetch"
    /\ pc = "fetch" =>
          /\ current.url \in visited_urls
          /\ fetch_log' = Append(fetch_log, fetch_log'[Len(fetch_log')])
          /\ fetch_log'[Len(fetch_log')].url = current.url

\* C30: no step of a crawl, and no later crawl() call, removes a URL from
\* visited_urls; a URL is added exactly by the step that dequeues its entry
\* and finds it unvisited, and the fetch of that URL comes after that step.
C30_VisitedOnlyGrows ==
    /\ [](\A i \in DOMAIN fetch_log : fetch_log[i].url \in visited_urls)
    /\ [][C30_VisitedStep]_vars

\* a second crawl() call has started on a crawler that visited three URLs,
\* two of them fetched without being recorded
C30_Witness ==
    /\ crawl_calls = 2
    /\ pc = "loop"
    /\ Cardinality(visited_urls) = 3
    /\ Len(crawled_data) = 1
    /\ visited_urls = FetchedUrls

(***************************************************************************)
(* generate_answer.                                                        *)
(***************************************************************************)
C26_Called(provider) ==
    \E i \in DOMAIN invocation.provider_calls :
        invocation.provider_calls[i].provider = provider

C26_Succeeded(provider) ==
    \E i \in DOMAIN invocation.provider_calls :
        /\ invocation.provider_calls[i].provider = provider
        /\ invocation.provider_calls[i].ok

C26_Finished ==
    invocation.pc = "ready" /\ invocation.calls > 0

\* C26: within one generate_answer call, Groq is called first when it is
\* configured and its answer is returned when it succeeds; Gemini is called
\* only when it is configured and Groq is not configured or has just failed,
\* and its answer is returned when it succeeds; no provider is called twice;
\* the call raises exactly when every configured provider was called and
\* failed, or none is configured.
C26_TryNextOnFailure ==
    invocation.op = "generate_answer" =>
        LET log == invocation.provider_calls
        IN  /\ \A i, j \in DOMAIN log :
                  log[i].provider = log[j].provider => i = j
            /\ \A i \in DOMAIN log :
                  /\ log[i].prompt = invocation.prompt
                  /\ log[i].provider = "groq" =>
                        i = 1 /\ invocation.groq_client
                  /\ log[i].provider = "gemini" =>
                        /\ invocation.gemini_model
                        /\ \/ i = 1 /\ ~ invocation.groq_client
                           \/ /\ i = 2
                              /\ log[1].provider = "groq"
                              /\ ~ log[1].ok
            /\ C26_Finished =>
                  /\ invocation.groq_client => C26_Called("groq")
                  /\ C26_Succeeded("groq") =>
                        /\ invocation.outcome =
                               [kind |-> "returned", value |-> GroqAnswer]
                        /\ ~ C26_Called("gemini")
                  /\ C26_Succeeded("gemini") =>
                        invocation.outcome =
                            [kind |-> "returned", value |-> GeminiAnswer]
                  /\ invocation.outcome.kind \in {"returned", "raised"}
                  /\ invocation.outcome.kind = "raised" <=>
                        /\ ~ C26_Succeeded("groq")
                        /\ ~ C26_Succeeded("gemini")
                  /\ invocation.outcome.kind = "raised" =>
                        /\ invocation.groq_client => C26_Called("groq")
                        /\ invocation.gemini_model => C26_Called("gemini")

\* the second call of a pipeline with both providers: Groq failed and the
\* answer of Gemini was returned
C26_Witness ==
    /\ invocation.op = "generate_answer"
    /\ C26_Finished
    /\ invocation.calls = 2
    /\ Len(invocation.provider_calls) = 2
    /\ ~ invocation.provider_calls[1].ok
    /\ invocation.outcome = [kind |-> "returned", value |-> GeminiAnswer]

(***************************************************************************)
(* extract_content.                                                        *)
(***************************************************************************)
\* the strings of the tree below the node, each with whether it lies inside
\* an element of a removed tag
RECURSIVE C24_Strings(_, _)
C24_Strings(node, inside) ==
    IF node.tag = "#text" THEN << [text |-> node.text, removed |-> inside] >>
    ELSE Concat([i \in DOMAIN node.children |->
                    C24_Strings(node.children[i],
                                inside \/ node.children[i].tag \in RemovedTags)])

\* the elements below the node that are not inside an element of a removed tag
RECURSIVE C24_ElementsOutside(_)
C24_ElementsOutside(node) ==
    Concat([i \in DOMAIN node.children |->
               IF \/ node.children[i].tag = "#text"
                  \/ node.children[i].tag \in RemovedTags
               THEN <<>>
               ELSE <<node.children[i]>> \o
                    C24_ElementsOutside(node.children[i])])

Chars(text) == {text[i] : i \in DOMAIN text}

\* the characters of a string of the document, as they read once entities are
\* resolved, whitespace aside
C24_Letters(text) == {unescape(text[i]) : i \in DOMAIN text} \ Whitespace

\* the characters that occur in the document inside removed elements only
C24_RemovedOnlyChars(soup) ==
    LET strings == C24_Strings(soup, FALSE)
    IN  UNION {C24_Letters(strings[i].text) :
                   i \in {j \in DOMAIN strings : strings[j].removed}}
        \ UNION {C24_Letters(strings[i].text) :
                     i \in {j \in DOMAIN strings : ~ strings[j].removed}}

\* the text of an element that lies outside removed elements, cleaned
C24_OutsideText(node) ==
    LET strings == C24_Strings(node, FALSE)
        outside == SelectSeq(strings, LAMBDA s : ~ s.removed)
    IN  clean_text(Concat([i \in DOMAIN outside |-> outside[i].text]))

Contains(text, part) ==
    \E k \in 0..(Len(text) - Len(part)) :
        SubSeq(text, k + 1, k + Len(part)) = part

\* C24: no character that the document holds inside removed elements only
\* (script, style, nav, header, footer, aside, iframe, noscript, svg) occurs
\* in the title, a heading, a paragraph, the combined text or the visible
\* text that extract_content computes; and the cleaned text of every p,
\* article, section or div outside removed elements that is longer than 20
\* characters is part of the combined text.
C24_RemovedTextExcluded ==
    invocation.op = "extract_content" /\ invocation.returned =>
        LET content == invocation.content
            gone    == C24_RemovedOnlyChars(invocation.soup)
            outside == C24_ElementsOutside(invocation.soup)
        IN  /\ Chars(content.title) \cap gone = {}
            /\ \A i \in DOMAIN content.headings :
                  Chars(content.headings[i]) \cap gone = {}
            /\ \A i \in DOMAIN content.paragraphs :
                  Chars(content.paragraphs[i]) \cap gone = {}
            /\ Chars(content.text) \cap gone = {}
            /\ Chars(content.visible_text) \cap gone = {}
            /\ content.text_length = Len(content.text)
            /\ \A i \in DOMAIN outside :
                  /\ outside[i].tag \in ParagraphTags
                  /\ Len(C24_OutsideText(outside[i])) > MinParagraphLength
                  => Contains(content.text, C24_OutsideText(outside[i]))

\* a paragraph that holds a script: the script's text is in no output, the
\* paragraph's own text is in the combined text beside the title
C24_Witness ==
    /\ invocation.op = "extract_content"
    /\ invocation.returned
    /\ invocation.soup =
           Elem("html", <<Nested("p", LongX, "script", LongY),
                          Leaf("title", LongX)>>)
    /\ C24_RemovedOnlyChars(invocation.soup) = {"Y"}
    /\ invocation.content.paragraphs = <<LongX>>
    /\ invocation.content.text = TitlePrefix \o LongX \o PartsSeparator \o LongX

\* C31: search is read-only.  Whatever the query and top_k, and whether the
\* call returns results, returns the empty list or raises, a step of search
\* leaves chunks, chunk_metadata, the index, dimension, the model and its
\* identifier (and the saved directory) as they were; and no returned record
\* is one of the records of chunk_metadata: each is a new record that adds
\* similarity_score and rank to a copy of the metadata.
C31_SearchReadOnly ==
    [][ last_call'.op = "search"
        => /\ kb' = kb
           /\ disk' = disk
           /\ \A i \in DOMAIN last_call'.results :
                 /\ \A j \in DOMAIN chunk_metadata' :
                       last_call'.results[i] # chunk_metadata'[j]
                 /\ DOMAIN last_call'.results[i] =
                       DOMAIN chunk_metadata'[1] \cup
                           {"similarity_score", "rank"} ]_vars

\* a search on a built knowledge base returned two ranked records
C31_Witness ==
    /\ last_call.op = "search"
    /\ ~ last_call.raised
    /\ Len(last_call.results) >= 2
    /\ Len(chunk_metadata) >= 2
    /\ ntotal(index) = Len(chunks)

\* the chunks of the pages with a non-empty text, page after page
RECURSIVE C32_ChunksOfPages(_)
C32_ChunksOfPages(pages) ==
    IF Len(pages) = 0 THEN <<>>
    ELSE LET page == pages[Len(pages)]
             rest == C32_ChunksOfPages(SubSeq(pages, 1, Len(pages) - 1))
         IN  IF Len(page.text) = 0 THEN rest
             ELSE rest \o chunk_text(page.text,
                                     [url |-> page.url, title |-> page.title,
                                      depth |-> page.depth], 3, 1)

\* C32: a successful build is a full rebuild.  When build_from_crawled_data
\* has returned, chunk_metadata is exactly the concatenation, in page order
\* and then chunk_index order, of the chunks of every page with a non-empty
\* text, chunks holds their texts, and the index holds exactly one vector
\* per chunk, the normalised embedding of that chunk, in the same order,
\* whatever the knowledge base held before the call.
C32_FullRebuild ==
    (last_call.op = "build_from_crawled_data" /\ ~ last_call.raised)
    => LET expected == C32_ChunksOfPages(last_call.pages)
       IN  /\ chunk_metadata = expected
           /\ chunks = [i \in DOMAIN expected |-> expected[i].text]
           /\ index.present
           /\ ntotal(index) = Len(expected)
           /\ \A i \in DOMAIN expected :
                 /\ index.vectors[i].of = expected[i].text
                 /\ index.vectors[i].v =
                       Normalize(encode(model, expected[i].text))
           /\ \A i \in DOMAIN expected :
                 \/ i = 1
                 \/ expected[i].chunk_index = expected[i - 1].chunk_index + 1
                 \/ /\ expected[i].chunk_index = 0
                    /\ expected[i].url # expected[i - 1].url

\* the third call on a knowledge base, which had been loaded or built before,
\* rebuilt it from one page: only the chunks of that page are held
C32_Witness ==
    /\ last_call.op = "build_from_crawled_data"
    /\ ~ last_call.raised
    /\ last_call.pages = <<DocA>>
    /\ kb_calls = MaxKbCalls
    /\ disk = EarlierSave
    /\ Len(chunks) < Len(EarlierKb.chunks)
    /\ Len(chunks) >= 2

\* C33: within one crawler instance every URL string is fetched at most once.
\* The number of fetch attempts equals the size of the visited set (the URL
\* marked visited on line 279 is fetched by the call of line 282, so between
\* the two the attempt under way is counted), no two fetch attempts target
\* the same URL even when the URL was enqueued several times, and no two
\* recorded pages have the same URL.  This holds across repeated crawl()
\* calls on the instance.
C33_FetchedAtMostOnce ==
    /\ Len(fetch_log) + (IF pc = "fetch" THEN 1 ELSE 0) =
          Cardinality(visited_urls)
    /\ pc = "fetch" => /\ current.url \in visited_urls
                       /\ current.url \notin FetchedUrls
    /\ pc # "fetch" => FetchedUrls = visited_urls
    /\ \A i, j \in DOMAIN fetch_log :
          fetch_log[i].url = fetch_log[j].url => i = j
    /\ \A i, j \in DOMAIN crawled_data :
          crawled_data[i].url = crawled_data[j].url => i = j

\* a crawl has returned in which one URL was enqueued twice, from two pages,
\* and fetched and recorded once
C33_Witness ==
    /\ pc = "done"
    /\ Len(crawled_data) >= 2
    /\ \E i, j \in DOMAIN enqueue_log :
          /\ i < j
          /\ enqueue_log[i].url = enqueue_log[j].url
          /\ enqueue_log[i].url # base_url
          /\ enqueue_log[i].url \in RecordedUrls
          /\ Cardinality({k \in DOMAIN fetch_log :
                            fetch_log[k].url = enqueue_log[i].url}) = 1

\* C34: calling crawl() again on the same crawler instance is a no-op.  From
\* the start of a second or later crawl() to its return, whether the first
\* call ended by frontier exhaustion or by reaching max_pages, no step
\* fetches or sleeps and visited_urls and crawled_data stay as the first
\* call left them, so the call returns the sequence the first call returned:
\* it only enqueues base_url, skips it as visited if the loop is entered, and
\* returns.
C34_SecondCrawlIsNoOp ==
    [][ crawl_calls' >= 2
        => /\ UNCHANGED <<visited_urls, crawled_data, fetch_log, delays>>
           /\ pc' \in {"loop", "done"} ]_vars

\* a second crawl() has returned on a crawler whose first crawl() ended by
\* frontier exhaustion with pages recorded: the start entry was skipped
C34_Witness ==
    /\ pc = "done"
    /\ crawl_calls = 2
    /\ Len(crawled_data) >= 1
    /\ Len(crawled_data) < max_pages
    /\ Len(fetch_log) >= 2
    /\ enqueue_log[Len(enqueue_log)] =
          [url |-> base_url, depth |-> 0, visited |-> TRUE]
    /\ queue = <<>>

\* the URLs of the retrieved chunks that are not empty
C35_Urls(context) ==
    {context[i].url : i \in DOMAIN context} \ {NoUrl}

\* the rank at which a URL first occurs among the retrieved chunks
C35_FirstRank(context, url) ==
    CHOOSE i \in DOMAIN context :
        /\ context[i].url = url
        /\ \A j \in 1..(i - 1) : context[j].url # url

\* C35: answer_question never raises.  When retrieval returns no chunk it
\* returns the fixed "couldn't find any relevant information" answer with
\* sources = [] and num_sources = 0 and calls no provider; when retrieval,
\* prompt construction or every provider fails it returns a record with an
\* 'error' field, sources = [] and num_sources = 0; otherwise it returns the
\* answer of the provider that succeeded, with num_sources = len(sources)
\* and sources holding each distinct non-empty URL of the retrieved chunks
\* once, in the order of first occurrence, with the title and score of that
\* first occurrence.
C35_AnswerQuestionNeverRaises ==
    (invocation.op = "answer_question" /\ invocation.calls > 0)
    => LET a       == invocation.answered
           r       == a.response
           context == a.retrieval.results
           answers == {a.provider_calls[i].provider :
                          i \in {j \in DOMAIN a.provider_calls :
                                    a.provider_calls[j].ok}}
           failed  == \/ a.retrieval.raised
                      \/ a.prompt_raised
                      \/ (context # <<>> /\ answers = {})
       IN  /\ ~ a.raised
           /\ r.num_sources = Len(r.sources)
           /\ (~ a.retrieval.raised /\ context = <<>>)
                 => /\ r.answer = [kind |-> "fixed", text |-> NoInformation]
                    /\ r.sources = <<>>
                    /\ ~ r.has_error
                    /\ a.provider_calls = <<>>
           /\ failed => /\ r.has_error
                        /\ r.answer.kind = "error"
                        /\ r.sources = <<>>
                        /\ r.num_sources = 0
           /\ (~ failed /\ context # <<>>)
                 => /\ ~ r.has_error
                    /\ r.answer.kind = "generated"
                    /\ \/ answers = {"groq"} /\ r.answer.text = GroqAnswer
                       \/ answers = {"gemini"} /\ r.answer.text = GeminiAnswer
                    /\ {r.sources[i].url : i \in DOMAIN r.sources} =
                          C35_Urls(context)
                    /\ \A i, j \in DOMAIN r.sources :
                          i < j => C35_FirstRank(context, r.sources[i].url)
                                      < C35_FirstRank(context, r.sources[j].url)
                    /\ \A i \in DOMAIN r.sources :
                          LET first ==
                                context[C35_FirstRank(context, r.sources[i].url)]
                          IN  /\ r.sources[i].title = first.title
                              /\ r.sources[i].similarity_score =
                                    first.similarity_score

\* an answer was generated by the fallback provider from five retrieved
\* chunks, one without a URL and three of one URL: two sources are returned
C35_Witness ==
    /\ invocation.op = "answer_question"
    /\ invocation.calls > 0
    /\ Len(invocation.answered.retrieval.results) = 5
    /\ \E i \in 1..5 : invocation.answered.retrieval.results[i].url = NoUrl
    /\ invocation.answered.response.answer.text = GeminiAnswer
    /\ Len(invocation.answered.provider_calls) = 2
    /\ invocation.answered.response.num_sources = 2
    /\ invocation.answered.response.sources[1].url #
          invocation.answered.retrieval.results[1].url

\* the four session entries that a build sets
C36_Four(s) == <<s.kb, s.rag_pipeline, s.crawled_url, s.kb_stats>>

\* C36: UI session invariant.  After any sequence of session actions kb,
\* rag_pipeline, crawled_url and kb_stats are either all unset or all set;
\* a crawl-and-build that fails (no pages, a build error, a missing API key)
\* or is rejected for its URL leaves the four and chat_history as they were;
\* Reset clears the four and chat_history; Clear Chat History empties
\* chat_history only; and every completed Send appends exactly one user
\* message, holding the question, followed by exactly one assistant message.
C36_SessionInvariant ==
    /\ [](invocation.op = "session"
            => \/ \A i \in 1..4 : C36_Four(invocation.session)[i] = None
               \/ \A i \in 1..4 : C36_Four(invocation.session)[i] # None)
    /\ [][ invocation.op = "session" =>
            LET s == invocation.session
                t == invocation'.session
            IN  /\ ( /\ invocation'.handler \in {"crawl_and_build_kb",
                                                 "rejected"}
                     /\ ~ invocation'.ok ) => t = s
                /\ invocation'.handler = "reset"
                      => /\ \A i \in 1..4 : C36_Four(t)[i] = None
                         /\ t.chat_history = <<>>
                /\ invocation'.handler = "clear"
                      => /\ C36_Four(t) = C36_Four(s)
                         /\ t.chat_history = <<>>
                /\ invocation'.handler = "send"
                      => /\ C36_Four(t) = C36_Four(s)
                         /\ invocation'.ok
                               => /\ Len(t.chat_history) =
                                        Len(s.chat_history) + 2
                                  /\ SubSeq(t.chat_history, 1,
                                            Len(s.chat_history)) =
                                        s.chat_history
                                  /\ t.chat_history[Len(s.chat_history) + 1]
                                        .role = "user"
                                  /\ t.chat_history[Len(s.chat_history) + 2]
                                        .role = "assistant"
                         /\ ~ invocation'.ok => t.chat_history = s.chat_history
          ]_vars

\* a build failed on a session that holds a knowledge base and a chat of one
\* completed Send, and left them in place
C36_Witness ==
    /\ invocation.op = "session"
    /\ invocation.handler = "crawl_and_build_kb"
    /\ ~ invocation.ok
    /\ invocation.session.kb # None
    /\ invocation.session.kb_stats # None
    /\ Len(invocation.session.chat_history) = 2
    /\ invocation.session.chat_history[1].role = "user"
    /\ invocation.session.chat_history[2].role = "assistant"

====
